---- MODULE Spec2Model ----
(***************************************************************************)
(* A model of datadiff: the structural diff engine of libdtf               *)
(* (compare_objects / compare_field / compare_arrays and their helpers)    *)
(* and the application layer that runs the enabled checkers.               *)
(*                                                                         *)
(* A serde_json Value is a record tagged by t; a Map<String, Value> is a   *)
(* sequence of entries [k, v] in the map's iteration order (serde_json's   *)
(* default map is a BTreeMap, so entries are sorted by key and equality of *)
(* maps is equality of these sequences).  A Rust panic is an outcome of    *)
(* its own: the panic field of a result.                                   *)
(***************************************************************************)
EXTENDS Integers, Sequences, FiniteSets, TLC

VARIABLES data1, data2, array_same_order, config, pc, result, diffs, ran,
          debug_assertions, call, file, output, loaded

vars == <<data1, data2, array_same_order, config, pc, result, diffs, ran,
          debug_assertions, call, file, output, loaded>>

----------------------------------------------------------------------------
(* serde_json::Value *)

Null == [t |-> "null"]
Bool(x) == [t |-> "bool", bv |-> x]
Number(n) == [t |-> "number", nv |-> n]
String(s) == [t |-> "string", sv |-> s]
Array(xs) == [t |-> "array", av |-> xs]
Object(m) == [t |-> "object", ov |-> m]

Entry(key, value) == [k |-> key, v |-> value]

is_null(v) == v.t = "null"

\* Map::keys, Map::contains_key, Map::get
Keys(m) == {m[i].k : i \in 1..Len(m)}
Has(m, key) == key \in Keys(m)
Get(m, key) == m[CHOOSE i \in 1..Len(m) : m[i].k = key].v

\* slice::contains
Contains(xs, x) == \E i \in 1..Len(xs) : xs[i] = x

\* get_type followed by ValueType's Display
get_type(value) == value.t

RECURSIVE JoinWith(_, _)
JoinWith(strs, sep) ==
    IF Len(strs) = 0 THEN ""
    ELSE IF Len(strs) = 1 THEN strs[1]
    ELSE strs[1] \o sep \o JoinWith(Tail(strs), sep)

\* Display of a serde_json Value: its compact JSON text
RECURSIVE value_to_string(_)
value_to_string(v) ==
    CASE v.t = "null" -> "null"
      [] v.t = "bool" -> (IF v.bv THEN "true" ELSE "false")
      [] v.t = "number" -> ToString(v.nv)
      [] v.t = "string" -> "\"" \o v.sv \o "\""
      [] v.t = "array" ->
            "[" \o JoinWith([i \in 1..Len(v.av) |-> value_to_string(v.av[i])], ",") \o "]"
      [] v.t = "object" ->
            "{" \o JoinWith([i \in 1..Len(v.ov) |->
                     "\"" \o v.ov[i].k \o "\":" \o value_to_string(v.ov[i].v)], ",") \o "}"

\* the mutant of primitive_to_string: the value is written as a JSON string
primitive_to_string_quoted(v) ==
    CASE v.t = "string" -> "\"" \o v.sv \o "\""
      [] v.t = "number" -> "\"" \o ToString(v.nv) \o "\""
      [] v.t = "bool" -> (IF v.bv THEN "\"true\"" ELSE "\"false\"")

\* Display of the inner String, Number or bool that compare_primitives is given
primitive_to_string(v) ==
    CASE v.t = "string" -> v.sv
      [] v.t = "number" -> ToString(v.nv)
      [] v.t = "bool" -> (IF v.bv THEN "true" ELSE "false")

----------------------------------------------------------------------------
(* serde_json::from_str on the text of a scalar *)

Digits == <<"0", "1", "2", "3", "4", "5", "6", "7", "8", "9">>
IsDigit(c) == \E i \in 1..Len(Digits) : Digits[i] = c
DigitValue(c) == (CHOOSE i \in 1..Len(Digits) : Digits[i] = c) - 1

\* an unsigned integer literal: digits, no leading zero unless it is "0"
IsIntegerLiteral(text) ==
    /\ Len(text) > 0
    /\ \A i \in 1..Len(text) : IsDigit(SubSeq(text, i, i))
    /\ Len(text) > 1 => SubSeq(text, 1, 1) # "0"

RECURSIVE IntegerValue(_)
IntegerValue(text) ==
    IF Len(text) = 0 THEN 0
    ELSE 10 * IntegerValue(SubSeq(text, 1, Len(text) - 1))
         + DigitValue(SubSeq(text, Len(text), Len(text)))

\* a string literal without escapes: text between two double quotes
IsStringLiteral(text) ==
    /\ Len(text) >= 2
    /\ SubSeq(text, 1, 1) = "\""
    /\ SubSeq(text, Len(text), Len(text)) = "\""
    /\ \A i \in 2..(Len(text) - 1) : SubSeq(text, i, i) \notin {"\"", "\\"}

ParseError == [ok |-> FALSE, value |-> Null]
Parsed(v) == [ok |-> TRUE, value |-> v]

\* the Value a JSON parser reads from text, for the scalar literals
from_str(text) ==
    IF text = "null" THEN Parsed(Null)
    ELSE IF text = "true" THEN Parsed(Bool(TRUE))
    ELSE IF text = "false" THEN Parsed(Bool(FALSE))
    ELSE IF IsIntegerLiteral(text) THEN Parsed(Number(IntegerValue(text)))
    ELSE IF IsStringLiteral(text) THEN Parsed(String(SubSeq(text, 2, Len(text) - 1)))
    ELSE ParseError

----------------------------------------------------------------------------
(* diff_types *)

FileA == "a.json"
FileB == "b.json"

WorkingFile(n) == [name |-> n]
WorkingContext(fa, fb) == [file_a |-> fa, file_b |-> fb]

KeyDiff(key, has, misses) == [key |-> key, has |-> has, misses |-> misses]
TypeDiff(key, type1, type2) == [key |-> key, type1 |-> type1, type2 |-> type2]
ValueDiff(key, value1, value2) == [key |-> key, value1 |-> value1, value2 |-> value2]
ArrayDiff(key, descriptor, value) == [key |-> key, descriptor |-> descriptor, value |-> value]

\* ComparisionResult, or the panic that unwinds the call
ComparisionResult(kd, td, vd, ad) ==
    [panic |-> FALSE, assertion |-> FALSE,
     key_diff |-> kd, type_diff |-> td, value_diff |-> vd, array_diff |-> ad]
EmptyResult == ComparisionResult(<<>>, <<>>, <<>>, <<>>)
\* a panic of unwrap() on None
PanicResult == [panic |-> TRUE, assertion |-> FALSE, key_diff |-> <<>>, type_diff |-> <<>>,
                value_diff |-> <<>>, array_diff |-> <<>>]
\* a panic of a debug_assert!
AssertionResult == [panic |-> TRUE, assertion |-> TRUE, key_diff |-> <<>>, type_diff |-> <<>>,
                    value_diff |-> <<>>, array_diff |-> <<>>]
\* the panic of r, unwinding through the caller
Unwound(r) == IF r.assertion THEN AssertionResult ELSE PanicResult

\* a Vec returned by a helper, or its panic
Returned(xs) == [panic |-> FALSE, assertion |-> FALSE, vec |-> xs]
Panicked == [panic |-> TRUE, assertion |-> FALSE, vec |-> <<>>]
AssertionFailed == [panic |-> TRUE, assertion |-> TRUE, vec |-> <<>>]

\* the mutant of AppendResult: the field's records are put in front
AppendResult_in_front(acc, r) ==
    IF acc.panic THEN Unwound(acc)
    ELSE IF r.panic THEN Unwound(r)
    ELSE ComparisionResult(r.key_diff \o acc.key_diff, r.type_diff \o acc.type_diff,
                           r.value_diff \o acc.value_diff, r.array_diff \o acc.array_diff)

\* the four Vec::append calls after a recursive call; a panic in the call unwinds
AppendResult(acc, r) ==
    IF acc.panic THEN Unwound(acc)
    ELSE IF r.panic THEN Unwound(r)
    ELSE ComparisionResult(acc.key_diff \o r.key_diff, acc.type_diff \o r.type_diff,
                           acc.value_diff \o r.value_diff, acc.array_diff \o r.array_diff)

----------------------------------------------------------------------------
(* libdtf: the debug guards *)

\* debug_assert! is compiled in when the build has debug assertions enabled (the
\* dev and test profiles) and compiled out otherwise (the release profile): the
\* variable debug_assertions says which build runs.

\* debug_assert!(type_a != type_b): TRUE when the guard panics
elements_different_types_guard_debug(type_a, type_b) ==
    debug_assertions /\ type_a = type_b

\* the mutant of one_element_null_guard_debug: only two nulls are rejected
one_element_null_guard_debug_both_null_only(a, b) ==
    debug_assertions /\ is_null(a) /\ is_null(b)

\* debug_assert!(a.is_null() ^ b.is_null()): TRUE when the guard panics
one_element_null_guard_debug(a, b) ==
    debug_assertions /\ is_null(a) = is_null(b)

\* Value::as_str: Some for a String, None for everything else
as_str(v) == IF v.t = "string" THEN [some |-> TRUE, s |-> v.sv] ELSE [some |-> FALSE, s |-> ""]

----------------------------------------------------------------------------
(* libdtf: the helpers of compare_field *)

\* the mutant of fill_diff_vectors: elements are matched one-to-one (multiset difference)
RECURSIVE remove_first(_, _)
remove_first(xs, x) ==
    IF Len(xs) = 0 THEN xs
    ELSE IF xs[1] = x THEN Tail(xs)
    ELSE <<xs[1]>> \o remove_first(Tail(xs), x)

RECURSIVE unmatched(_, _)
unmatched(xs, ys) ==
    IF Len(xs) = 0 THEN <<>>
    ELSE IF Contains(ys, xs[1]) THEN unmatched(Tail(xs), remove_first(ys, xs[1]))
    ELSE <<xs[1]>> \o unmatched(Tail(xs), ys)

fill_diff_vectors_multiset(a, b) ==
    [a_has |-> unmatched(a, b), a_misses |-> unmatched(b, a),
     b_has |-> unmatched(b, a), b_misses |-> unmatched(a, b)]

\* the mutant of fill_diff_vectors: a_misses is filled from a instead of b
fill_diff_vectors_misses_swapped(a, b) ==
    [a_has    |-> SelectSeq(a, LAMBDA x : ~Contains(b, x)),
     a_misses |-> SelectSeq(a, LAMBDA x : ~Contains(b, x)),
     b_has    |-> SelectSeq(b, LAMBDA x : ~Contains(a, x)),
     b_misses |-> SelectSeq(b, LAMBDA x : ~Contains(a, x))]

fill_diff_vectors(a, b) ==
    [a_has    |-> SelectSeq(a, LAMBDA x : ~Contains(b, x)),
     a_misses |-> SelectSeq(b, LAMBDA x : ~Contains(a, x)),
     b_has    |-> SelectSeq(b, LAMBDA x : ~Contains(a, x)),
     b_misses |-> SelectSeq(a, LAMBDA x : ~Contains(b, x))]

TaggedDiffs(key, xs, desc) ==
    [i \in 1..Len(xs) |-> ArrayDiff(key, desc, value_to_string(xs[i]))]

\* the mutant of handle_different_order_arrays: the BHas records are pushed first
handle_different_order_arrays_b_first(a, b, key) ==
    LET f == fill_diff_vectors(a, b)
    IN  TaggedDiffs(key, f.b_has, "BHas") \o TaggedDiffs(key, f.a_has, "AHas")
        \o TaggedDiffs(key, f.a_misses, "AMisses") \o TaggedDiffs(key, f.b_misses, "BMisses")

handle_different_order_arrays(a, b, key) ==
    LET f == fill_diff_vectors(a, b)
    IN  TaggedDiffs(key, f.a_has, "AHas") \o TaggedDiffs(key, f.a_misses, "AMisses")
        \o TaggedDiffs(key, f.b_has, "BHas") \o TaggedDiffs(key, f.b_misses, "BMisses")

\* the mutant of compare_primitives: the two renderings change places
compare_primitives_sides_swapped(key, a, b) ==
    IF a # b
    THEN <<ValueDiff(key, primitive_to_string(b), primitive_to_string(a))>>
    ELSE <<>>

\* the mutant of compare_primitives: a diff is pushed whether or not a != b
compare_primitives_always(key, a, b) ==
    <<ValueDiff(key, primitive_to_string(a), primitive_to_string(b))>>

compare_primitives(key, a, b) ==
    IF a # b
    THEN <<ValueDiff(key, primitive_to_string(a), primitive_to_string(b))>>
    ELSE <<>>

\* the mutant of handle_different_types: a diff is pushed for two primitives only
handle_different_types_primitives_only(key, a, b) ==
    LET type_a == get_type(a)
        type_b == get_type(b)
    IN  IF elements_different_types_guard_debug(type_a, type_b) THEN AssertionFailed
        ELSE IF type_a \in {"array", "object"} \/ type_b \in {"array", "object"}
             THEN Returned(<<>>)
             ELSE Returned(<<TypeDiff(key, type_a, type_b)>>)

\* the mutant of handle_different_types: the two types change places
handle_different_types_swapped(key, a, b) ==
    LET type_a == get_type(a)
        type_b == get_type(b)
    IN  IF elements_different_types_guard_debug(type_a, type_b) THEN AssertionFailed
        ELSE Returned(<<TypeDiff(key, type_b, type_a)>>)

handle_different_types(key, a, b) ==
    LET type_a == get_type(a)
        type_b == get_type(b)
    IN  IF elements_different_types_guard_debug(type_a, type_b) THEN AssertionFailed
        ELSE Returned(<<TypeDiff(key, type_a, type_b)>>)

handle_one_element_null_primitives(key, a, b) ==
    IF one_element_null_guard_debug(a, b) THEN AssertionFailed
    ELSE IF is_null(a)
         THEN IF as_str(b).some
              THEN Returned(<<ValueDiff(key, "", as_str(b).s)>>)
              ELSE Panicked
         ELSE IF as_str(a).some
              THEN Returned(<<ValueDiff(key, as_str(a).s, "")>>)
              ELSE Panicked

handle_one_element_null_arrays(key, a, b) ==
    IF one_element_null_guard_debug(a, b) THEN AssertionFailed
    ELSE LET side == IF is_null(a) THEN b ELSE a
             desc == IF is_null(a) THEN "BHas" ELSE "AHas"
         IN  IF side.t # "array" THEN Panicked
             ELSE IF \E i \in 1..Len(side.av) : ~as_str(side.av[i]).some THEN Panicked
             ELSE Returned([i \in 1..Len(side.av) |->
                               ArrayDiff(key, desc, as_str(side.av[i]).s)])

\* the mutant of child_key: the parent's path is left out
child_key_without_parent(key_in, a_key) == a_key

\* the mutant of child_key: the separator is written at the root too
child_key_leading_dot(key_in, a_key) == key_in \o "." \o a_key

\* the path of a child key: the bare key at the root, parent "." key below it
child_key(key_in, a_key) ==
    IF key_in = "" THEN a_key ELSE key_in \o "." \o a_key

\* the mutant of item_key: the index is joined with the separator of keys
item_key_dot_separated(key, i) == key \o ".[" \o ToString(i) \o "]"

\* the mutant of item_key: the index counts from 1
item_key_one_based(key, i) == key \o "[" \o ToString(i + 1) \o "]"

\* the path of an array element
item_key(key, i) == key \o "[" \o ToString(i) \o "]"

\* the mutant of handle_one_element_null_objects: the keys are reported as held
\* by the side of the null
handle_one_element_null_objects_sides_swapped(parent_key, a, b, working_context) ==
    IF one_element_null_guard_debug(a, b) THEN AssertionResult
    ELSE LET side == IF is_null(a) THEN b ELSE a
         IN  IF side.t # "object" THEN PanicResult
             ELSE IF \E i \in 1..Len(side.ov) : ~as_str(side.ov[i].v).some THEN PanicResult
             ELSE LET object == side.ov
                      full_key(i) == child_key(parent_key, object[i].k)
                      has == IF is_null(a) THEN working_context.file_a.name
                             ELSE working_context.file_b.name
                      misses == IF is_null(a) THEN working_context.file_b.name
                                ELSE working_context.file_a.name
                  IN  ComparisionResult(
                        [i \in 1..Len(object) |-> KeyDiff(full_key(i), has, misses)],
                        [i \in 1..Len(object) |->
                            TypeDiff(full_key(i),
                                     IF is_null(a) THEN "" ELSE get_type(object[i].v),
                                     IF is_null(a) THEN get_type(object[i].v) ELSE "")],
                        [i \in 1..Len(object) |->
                            ValueDiff(full_key(i),
                                      IF is_null(a) THEN "" ELSE as_str(object[i].v).s,
                                      IF is_null(a) THEN as_str(object[i].v).s ELSE "")],
                        <<>>)

handle_one_element_null_objects(parent_key, a, b, working_context) ==
    IF one_element_null_guard_debug(a, b) THEN AssertionResult
    ELSE LET side == IF is_null(a) THEN b ELSE a
         IN  IF side.t # "object" THEN PanicResult
             ELSE IF \E i \in 1..Len(side.ov) : ~as_str(side.ov[i].v).some THEN PanicResult
             ELSE LET object == side.ov
                      full_key(i) == child_key(parent_key, object[i].k)
                      has == IF is_null(a) THEN working_context.file_b.name
                             ELSE working_context.file_a.name
                      misses == IF is_null(a) THEN working_context.file_a.name
                                ELSE working_context.file_b.name
                  IN  ComparisionResult(
                        [i \in 1..Len(object) |-> KeyDiff(full_key(i), has, misses)],
                        [i \in 1..Len(object) |->
                            TypeDiff(full_key(i),
                                     IF is_null(a) THEN "" ELSE get_type(object[i].v),
                                     IF is_null(a) THEN get_type(object[i].v) ELSE "")],
                        [i \in 1..Len(object) |->
                            ValueDiff(full_key(i),
                                      IF is_null(a) THEN "" ELSE as_str(object[i].v).s,
                                      IF is_null(a) THEN as_str(object[i].v).s ELSE "")],
                        <<>>)

----------------------------------------------------------------------------
(* libdtf: compare_objects, compare_field, compare_arrays *)

Reverse(xs) == [i \in 1..Len(xs) |-> xs[Len(xs) + 1 - i]]

\* The iteration orders a std HashMap can give the keys left in b_keys: the map
\* is seeded at random, so any order can come out.  h picks the order: the
\* order of b's own keys, or its reverse.
HashOrders == {"forward", "reverse"}

\* the mutant of b_keys: the keys found in a are not removed
b_keys_not_removed(a, b, h) ==
    LET ks == [i \in 1..Len(b) |-> b[i].k]
    IN  IF h = "forward" THEN ks ELSE Reverse(ks)

\* b_keys once the loop over a has removed every key of a: the keys of b alone,
\* in the order the HashMap iterates them
b_keys(a, b, h) ==
    LET left == SelectSeq(b, LAMBDA e : ~Has(a, e.k))
        ks == [i \in 1..Len(left) |-> left[i].k]
    IN  IF h = "forward" THEN ks ELSE Reverse(ks)

RECURSIVE compare_objects(_, _, _, _, _, _)
RECURSIVE compare_field(_, _, _, _, _, _)
RECURSIVE compare_arrays(_, _, _, _, _, _)
RECURSIVE compare_objects_loop(_, _, _, _, _, _, _, _)
RECURSIVE compare_arrays_loop(_, _, _, _, _, _, _, _)

\* the loop over a of compare_objects, from entry i on, acc holding the four
\* vectors so far
compare_objects_loop(key_in, a, b, working_context, same_order, h, i, acc) ==
    IF i > Len(a) \/ acc.panic THEN acc
    ELSE LET a_key == a[i].k
             a_value == a[i].v
             key == child_key(key_in, a_key)
             next == IF Has(b, a_key)
                     THEN AppendResult(acc,
                            compare_field(key, a_value, Get(b, a_key),
                                          working_context, same_order, h))
                     ELSE [acc EXCEPT !.key_diff = Append(@,
                              KeyDiff(key, working_context.file_a.name,
                                      working_context.file_b.name))]
         IN  compare_objects_loop(key_in, a, b, working_context, same_order, h, i + 1, next)

\* the mutant of compare_objects: a key left in b_keys is reported as held by a
compare_objects_b_only_held_by_a(key_in, a, b, working_context, same_order, h) ==
    LET scanned == compare_objects_loop(key_in, a, b, working_context, same_order, h,
                                        1, EmptyResult)
        rest == b_keys(a, b, h)
    IN  IF scanned.panic THEN Unwound(scanned)
        ELSE [scanned EXCEPT !.key_diff = @ \o
                [j \in 1..Len(rest) |->
                    KeyDiff(child_key(key_in, rest[j]), working_context.file_a.name,
                            working_context.file_b.name)]]

compare_objects(key_in, a, b, working_context, same_order, h) ==
    LET scanned == compare_objects_loop(key_in, a, b, working_context, same_order, h,
                                        1, EmptyResult)
        rest == b_keys(a, b, h)
    IN  IF scanned.panic THEN Unwound(scanned)
        ELSE [scanned EXCEPT !.key_diff = @ \o
                [j \in 1..Len(rest) |->
                    KeyDiff(child_key(key_in, rest[j]), working_context.file_b.name,
                            working_context.file_a.name)]]

\* the index-wise loop of compare_arrays; i counts from 0 as enumerate() does
compare_arrays_loop(key, a, b, working_context, same_order, h, i, acc) ==
    IF i >= Len(a) \/ acc.panic THEN acc
    ELSE compare_arrays_loop(key, a, b, working_context, same_order, h, i + 1,
            AppendResult(acc,
                compare_field(item_key(key, i), a[i + 1], b[i + 1],
                              working_context, same_order, h)))

\* the mutant of compare_arrays: arrays of equal length are compared index by
\* index whatever same_order says
compare_arrays_ignores_same_order(key, a, b, working_context, same_order, h) ==
    IF Len(a) = Len(b)
    THEN compare_arrays_loop(key, a, b, working_context, same_order, h, 0, EmptyResult)
    ELSE ComparisionResult(<<>>, <<>>, <<>>, handle_different_order_arrays(a, b, key))

compare_arrays(key, a, b, working_context, same_order, h) ==
    IF Len(a) = Len(b)
    THEN IF same_order
         THEN compare_arrays_loop(key, a, b, working_context, same_order, h, 0, EmptyResult)
         ELSE ComparisionResult(<<>>, <<>>, <<>>, handle_different_order_arrays(a, b, key))
    ELSE ComparisionResult(<<>>, <<>>, <<>>, handle_different_order_arrays(a, b, key))

IsPrimitive(v) == v.t \in {"string", "number", "bool"}

ValueDiffsOnly(r) ==
    IF r.panic THEN Unwound(r) ELSE ComparisionResult(<<>>, <<>>, r.vec, <<>>)
TypeDiffsOnly(r) ==
    IF r.panic THEN Unwound(r) ELSE ComparisionResult(<<>>, r.vec, <<>>, <<>>)
ArrayDiffsOnly(r) ==
    IF r.panic THEN Unwound(r) ELSE ComparisionResult(<<>>, <<>>, <<>>, r.vec)

compare_field(key, a_value, b_value, working_context, same_order, h) ==
    CASE \* primitives of the same type
         a_value.t = "null" /\ b_value.t = "null" -> EmptyResult
      [] IsPrimitive(a_value) /\ a_value.t = b_value.t ->
            ComparisionResult(<<>>, <<>>, compare_primitives(key, a_value, b_value), <<>>)
         \* composites of the same type
      [] a_value.t = "array" /\ b_value.t = "array" ->
            compare_arrays(key, a_value.av, b_value.av, working_context, same_order, h)
      [] a_value.t = "object" /\ b_value.t = "object" ->
            compare_objects(key, a_value.ov, b_value.ov, working_context, same_order, h)
         \* one value is null, the other a primitive
      [] (is_null(a_value) /\ IsPrimitive(b_value)) \/ (IsPrimitive(a_value) /\ is_null(b_value)) ->
            ValueDiffsOnly(handle_one_element_null_primitives(key, a_value, b_value))
         \* one value is null, the other a composite
      [] (is_null(a_value) /\ b_value.t = "array") \/ (a_value.t = "array" /\ is_null(b_value)) ->
            ArrayDiffsOnly(handle_one_element_null_arrays(key, a_value, b_value))
      [] (is_null(a_value) /\ b_value.t = "object") \/ (a_value.t = "object" /\ is_null(b_value)) ->
            handle_one_element_null_objects(key, a_value, b_value, working_context)
         \* two different types, neither null
      [] OTHER -> TypeDiffsOnly(handle_different_types(key, a_value, b_value))

----------------------------------------------------------------------------
(* The documents the comparison is run on *)

\* the longest generated array
MaxLen == 2

Scalars == {Null, Bool(TRUE), Bool(FALSE), Number(1), Number(2), String("a")}

ArrayItems == {Number(1), Number(2)}

NumberArrays == {Array(xs) : xs \in UNION {[1..n -> ArrayItems] : n \in 0..MaxLen}}

\* arrays that hold something else than numbers
OtherArrays ==
    { Array(<<String("a")>>),
      Array(<<Object(<<Entry("y", Number(1))>>)>>),
      Array(<<Object(<<Entry("y", Number(2))>>)>>),
      Array(<<Object(<<>>)>>) }

\* the values of the key "x"
XValues == Scalars \cup NumberArrays \cup OtherArrays
             \cup {Object(<<Entry("y", String("a"))>>)}

\* the values of the key "nested"
NestedValues ==
    { Null,
      Object(<<>>),
      Object(<<Entry("y", Number(1))>>),
      Object(<<Entry("y", String("a"))>>),
      Object(<<Entry("y", Null)>>),
      Object(<<Entry("y", Array(<<Number(1)>>))>>) }

\* every map over the keys "nested" and "x", its entries in key order
GeneratedDocs ==
    {<<>>}
    \cup {<<Entry("x", x)>> : x \in XValues}
    \cup {<<Entry("nested", n)>> : n \in NestedValues}
    \cup {<<Entry("nested", n), Entry("x", x)>> : n \in NestedValues, x \in XValues}

\* the documents of the specification's end-to-end example
ExampleA == <<Entry("nested", Object(<<Entry("y", Bool(TRUE))>>)), Entry("x", String("1"))>>
ExampleB == <<Entry("x", String("2"))>>

\* the arrays of test_compare_arrays_returns_correct_when_not_same_order and
\* test_compare_arrays_returns_correct_when_not_same_length, under the key "key"
NumbersOf(ns) == Array([i \in 1..Len(ns) |-> Number(ns[i])])
TestArrA == <<Entry("key", NumbersOf(<<1, 2, 3, 4, 5, 6, 7>>))>>
TestArrA8 == <<Entry("key", NumbersOf(<<1, 2, 3, 4, 5, 6, 7, 8>>))>>
TestArrB == <<Entry("key", NumbersOf(<<5, 7, 3, 11, 5, 2, 1>>))>>
\* the second array of test_compare_arrays_returns_correct_when_same_order_same_length
TestArrSameOrderB == <<Entry("key", NumbersOf(<<5, 2, 3, 5, 5, 8, 1>>))>>

\* the documents of test_compare_objects_array_same_order_same_length, their keys
\* in the map's order
TestObjectA ==
    <<Entry("array_diff_same_order", NumbersOf(<<1, 2, 3, 4, 5>>)),
      Entry("key_diff_a_has", String("key_diff_a_has")),
      Entry("nested_object", Object(<<
          Entry("array_diff_same_order", NumbersOf(<<1, 2, 3, 4, 5>>)),
          Entry("key_diff_a_has", String("key_diff_a_has")),
          Entry("type_diff_a_string_b_int", String("type_diff_a_string_b_int")),
          Entry("value_diff", String("a"))>>)),
      Entry("type_diff_a_string_b_int", String("type_diff_a_string_b_int")),
      Entry("value_diff", String("a"))>>
TestObjectB ==
    <<Entry("array_diff_same_order", NumbersOf(<<1, 2, 6, 4, 5>>)),
      Entry("nested_object", Object(<<
          Entry("array_diff_same_order", NumbersOf(<<1, 2, 6, 4, 5>>)),
          Entry("type_diff_a_string_b_int", Number(2)),
          Entry("value_diff", String("b"))>>)),
      Entry("type_diff_a_string_b_int", Number(2)),
      Entry("value_diff", String("b"))>>

\* an array inside a nested object, and values three objects deep
DeepA ==
    <<Entry("nested", Object(<<
          Entry("array", NumbersOf(<<1, 2, 3>>)),
          Entry("inner", Object(<<Entry("y", String("a")), Entry("z", Null)>>))>>))>>
DeepB ==
    <<Entry("nested", Object(<<
          Entry("array", NumbersOf(<<1, 2, 4>>)),
          Entry("inner", Object(<<Entry("y", Number(1)), Entry("z", String("a"))>>))>>))>>

FixtureDocs == {ExampleA, ExampleB, TestArrA, TestArrA8, TestArrB, TestArrSameOrderB,
                TestObjectA, TestObjectB, DeepA, DeepB}

Docs == GeneratedDocs \cup FixtureDocs

----------------------------------------------------------------------------
(* The state machine: one run of compare_objects at the root *)

working_context == WorkingContext(WorkingFile(FileA), WorkingFile(FileB))

\* the engine is run without the application's configuration
NoConfig == [check_for_key_diffs |-> FALSE, check_for_type_diffs |-> FALSE,
             check_for_value_diffs |-> FALSE, check_for_array_diffs |-> FALSE]

None == [some |-> FALSE, vec |-> <<>>]
Some(xs) == [some |-> TRUE, vec |-> xs]
NoDiffs == [key_diff |-> None, type_diff |-> None, value_diff |-> None, array_diff |-> None]

\* no helper is called on its own, no result file exists
NoCall == [a |-> Null, b |-> Null]
NoFile == [exists |-> FALSE]

Init ==
    /\ data1 \in Docs
    /\ data2 \in Docs
    /\ array_same_order \in BOOLEAN
    /\ config = NoConfig
    /\ pc = "start"
    /\ result = EmptyResult
    /\ diffs = NoDiffs
    /\ ran = {}
    /\ debug_assertions \in BOOLEAN
    /\ call = NoCall
    /\ file = NoFile
    /\ output = <<>>
    /\ loaded = NoDiffs

\* main: compare_objects("", &data1, &data2, &working_context, array_same_order)
Compare ==
    /\ pc = "start"
    /\ \E h \in HashOrders :
          result' = compare_objects("", data1, data2, working_context, array_same_order, h)
    /\ pc' = "compared"
    /\ UNCHANGED <<data1, data2, array_same_order, config, diffs, ran,
                   debug_assertions, call, file, output, loaded>>

Next == Compare

Spec == Init /\ [][Next]_vars

----------------------------------------------------------------------------
(* The four checkers of the application's libdtf (find_key_diffs,              *)
(* find_type_diffs, find_value_diffs, find_array_diffs): one stateless walk per *)
(* category over the pairs both documents define, each from the root path.      *)

RECURSIVE find_in_values(_, _, _, _, _, _)
RECURSIVE find_in_objects(_, _, _, _, _, _)

\* the records of one category for a pair of values both sides define at key
find_in_values(category, key, x, y, lib_working_context, same_order) ==
    LET index_wise == x.t = "array" /\ y.t = "array" /\ same_order /\ Len(x.av) = Len(y.av)
        here ==
            CASE category = "type" /\ x.t # y.t -> <<TypeDiff(key, x.t, y.t)>>
              [] category = "value" /\ IsPrimitive(x) /\ x.t = y.t
                    /\ primitive_to_string(x) # primitive_to_string(y) ->
                    <<ValueDiff(key, primitive_to_string(x), primitive_to_string(y))>>
              [] category = "array" /\ x.t = "array" /\ y.t = "array" /\ ~index_wise ->
                    handle_different_order_arrays(x.av, y.av, key)
              [] OTHER -> <<>>
        items[i \in 0..Len(x.av)] ==
            IF i = 0 THEN <<>>
            ELSE items[i - 1] \o find_in_values(category, item_key(key, i - 1), x.av[i], y.av[i],
                                                lib_working_context, same_order)
        below ==
            IF x.t = "object" /\ y.t = "object"
            THEN find_in_objects(category, key, x.ov, y.ov, lib_working_context, same_order)
            ELSE IF index_wise /\ category # "array" THEN items[Len(x.av)]
            ELSE <<>>
    IN  here \o below

\* the records of one category for a pair of objects at key_in
find_in_objects(category, key_in, a, b, lib_working_context, same_order) ==
    LET scan[i \in 0..Len(a)] ==
            IF i = 0 THEN <<>>
            ELSE scan[i - 1] \o
                 (IF Has(b, a[i].k)
                  THEN find_in_values(category, child_key(key_in, a[i].k), a[i].v,
                                      Get(b, a[i].k), lib_working_context, same_order)
                  ELSE IF category = "key"
                       THEN <<KeyDiff(child_key(key_in, a[i].k),
                                      lib_working_context.file_a.name,
                                      lib_working_context.file_b.name)>>
                       ELSE <<>>)
        unvisited == SelectSeq(b, LAMBDA e : ~Has(a, e.k))
    IN  scan[Len(a)] \o
        (IF category = "key"
         THEN [j \in 1..Len(unvisited) |->
                  KeyDiff(child_key(key_in, unvisited[j].k),
                          lib_working_context.file_b.name, lib_working_context.file_a.name)]
         ELSE <<>>)

find_key_diffs(key_in, a, b, lib_working_context, same_order) ==
    find_in_objects("key", key_in, a, b, lib_working_context, same_order)
find_type_diffs(key_in, a, b, lib_working_context, same_order) ==
    find_in_objects("type", key_in, a, b, lib_working_context, same_order)
find_value_diffs(key_in, a, b, lib_working_context, same_order) ==
    find_in_objects("value", key_in, a, b, lib_working_context, same_order)
find_array_diffs(key_in, a, b, lib_working_context, same_order) ==
    find_in_objects("array", key_in, a, b, lib_working_context, same_order)

----------------------------------------------------------------------------
(* The application: JsonApp::perform_new_check *)

Config(k, t, v, a) ==
    [check_for_key_diffs |-> k, check_for_type_diffs |-> t,
     check_for_value_diffs |-> v, check_for_array_diffs |-> a]

Configs == {Config(k, t, v, a) : k \in BOOLEAN, t \in BOOLEAN, v \in BOOLEAN, a \in BOOLEAN}

\* DiffCollection
DiffCollection(kd, td, vd, ad) ==
    [key_diff |-> kd, type_diff |-> td, value_diff |-> vd, array_diff |-> ad]

\* the mutant of check_for_diffs: the type checker is run under the key flag
check_for_diffs_type_under_key_flag(d1, d2, cfg, lib_working_context, same_order) ==
    DiffCollection(
        IF cfg.check_for_key_diffs
        THEN Some(find_key_diffs("", d1, d2, lib_working_context, same_order)) ELSE None,
        IF cfg.check_for_key_diffs
        THEN Some(find_type_diffs("", d1, d2, lib_working_context, same_order)) ELSE None,
        IF cfg.check_for_value_diffs
        THEN Some(find_value_diffs("", d1, d2, lib_working_context, same_order)) ELSE None,
        IF cfg.check_for_array_diffs
        THEN Some(find_array_diffs("", d1, d2, lib_working_context, same_order)) ELSE None)

check_for_diffs(d1, d2, cfg, lib_working_context, same_order) ==
    DiffCollection(
        IF cfg.check_for_key_diffs
        THEN Some(find_key_diffs("", d1, d2, lib_working_context, same_order)) ELSE None,
        IF cfg.check_for_type_diffs
        THEN Some(find_type_diffs("", d1, d2, lib_working_context, same_order)) ELSE None,
        IF cfg.check_for_value_diffs
        THEN Some(find_value_diffs("", d1, d2, lib_working_context, same_order)) ELSE None,
        IF cfg.check_for_array_diffs
        THEN Some(find_array_diffs("", d1, d2, lib_working_context, same_order)) ELSE None)

\* the documents the application is run on
AppXValues ==
    { Null, Number(1), Number(2), String("a"),
      Array(<<Number(1), Number(2)>>), Array(<<Number(2), Number(1)>>), Array(<<Number(1)>>) }
AppNestedValues == {Object(<<>>), Object(<<Entry("y", Number(1))>>)}

AppDocs ==
    {<<>>, ExampleA, ExampleB}
    \cup {<<Entry("x", x)>> : x \in AppXValues}
    \cup {<<Entry("nested", n)>> : n \in AppNestedValues}
    \cup {<<Entry("nested", n), Entry("x", x)>> : n \in AppNestedValues, x \in AppXValues}

InitApp ==
    /\ data1 \in AppDocs
    /\ data2 \in AppDocs
    /\ array_same_order \in BOOLEAN
    /\ config \in Configs
    /\ pc = "start"
    /\ result = EmptyResult
    /\ diffs = NoDiffs
    /\ ran = {}
    /\ debug_assertions = FALSE
    /\ call = NoCall
    /\ file = NoFile
    /\ output = <<>>
    /\ loaded = NoDiffs

\* JsonApp::perform_new_check
PerformNewCheck ==
    /\ pc = "start"
    /\ diffs' = check_for_diffs(data1, data2, config, working_context, array_same_order)
    /\ pc' = "checked"
    /\ UNCHANGED <<data1, data2, array_same_order, config, result, ran,
                   debug_assertions, call, file, output, loaded>>

NextApp == PerformNewCheck

AppSpec == InitApp /\ [][NextApp]_vars

----------------------------------------------------------------------------
(* The application, one checker at a time: each `let x_diff = if flag { ... } *)
(* else { None }` block of check_for_diffs is a step of its own, and the      *)
(* blocks are taken in any order.                                             *)

Categories == {"key", "type", "value", "array"}

enabled(cfg, category) ==
    CASE category = "key" -> cfg.check_for_key_diffs
      [] category = "type" -> cfg.check_for_type_diffs
      [] category = "value" -> cfg.check_for_value_diffs
      [] category = "array" -> cfg.check_for_array_diffs

component(collection, category) ==
    CASE category = "key" -> collection.key_diff
      [] category = "type" -> collection.type_diff
      [] category = "value" -> collection.value_diff
      [] category = "array" -> collection.array_diff

with_component(collection, category, value) ==
    CASE category = "key" -> [collection EXCEPT !.key_diff = value]
      [] category = "type" -> [collection EXCEPT !.type_diff = value]
      [] category = "value" -> [collection EXCEPT !.value_diff = value]
      [] category = "array" -> [collection EXCEPT !.array_diff = value]

\* CheckingData::new("", data1, data2, &lib_working_context), check(), diffs()
checking_data_diffs(category, d1, d2, lib_working_context, same_order) ==
    CASE category = "key" -> find_key_diffs("", d1, d2, lib_working_context, same_order)
      [] category = "type" -> find_type_diffs("", d1, d2, lib_working_context, same_order)
      [] category = "value" -> find_value_diffs("", d1, d2, lib_working_context, same_order)
      [] category = "array" -> find_array_diffs("", d1, d2, lib_working_context, same_order)

\* the records every checker that ran before has left behind
Accumulated ==
    LET vec(category) == IF category \in ran THEN component(diffs, category).vec ELSE <<>>
    IN  vec("key") \o vec("type") \o vec("value") \o vec("array")

\* the mutant of RunChecker: the checkers push into one shared vector, so a
\* checker's sequence starts with what the earlier ones found
RunChecker_shared_accumulator(category) ==
    /\ pc = "start"
    /\ category \notin ran
    /\ diffs' = with_component(diffs, category,
                    IF enabled(config, category)
                    THEN Some(Accumulated \o
                              checking_data_diffs(category, data1, data2, working_context,
                                                  array_same_order))
                    ELSE None)
    /\ ran' = ran \cup {category}
    /\ pc' = IF ran' = Categories THEN "checked" ELSE "start"
    /\ UNCHANGED <<data1, data2, array_same_order, config, result,
                   debug_assertions, call, file, output, loaded>>

\* one block of check_for_diffs: a fresh CheckingData over the two documents and
\* the context, whose diffs become the category's component
RunChecker(category) ==
    /\ pc = "start"
    /\ category \notin ran
    /\ diffs' = with_component(diffs, category,
                    IF enabled(config, category)
                    THEN Some(checking_data_diffs(category, data1, data2, working_context,
                                                  array_same_order))
                    ELSE None)
    /\ ran' = ran \cup {category}
    /\ pc' = IF ran' = Categories THEN "checked" ELSE "start"
    /\ UNCHANGED <<data1, data2, array_same_order, config, result,
                   debug_assertions, call, file, output, loaded>>

NextCheckers == \E category \in Categories : RunChecker(category)

CheckersSpec == InitApp /\ [][NextCheckers]_vars

----------------------------------------------------------------------------
(* The terminal application: App::new, App::execute, FileHandler, the tables *)

NoPath == [some |-> FALSE, path |-> ""]
SomePath(p) == [some |-> TRUE, path |-> p]

SavedFile == "saved.json"

\* the command lines clap accepts: at least one of -k -t -v -a, and either the two
\* check files or the file to read from
Arguments ==
    {args \in [key_diffs : BOOLEAN, type_diffs : BOOLEAN, value_diffs : BOOLEAN,
               array_diffs : BOOLEAN, array_same_order : BOOLEAN,
               read_from_file : {"", SavedFile},
               write_to_file : {NoPath, SomePath(SavedFile)},
               write_to_html : BOOLEAN] :
        args.key_diffs \/ args.type_diffs \/ args.value_diffs \/ args.array_diffs}

\* App::parse_args: the paths are None when read_from_file is given
parse_args(args) ==
    LET path1 == IF args.read_from_file = "" THEN SomePath(FileA) ELSE NoPath
        path2 == IF args.read_from_file = "" THEN SomePath(FileB) ELSE NoPath
    IN  [check_for_key_diffs |-> args.key_diffs,
         check_for_type_diffs |-> args.type_diffs,
         check_for_value_diffs |-> args.value_diffs,
         check_for_array_diffs |-> args.array_diffs,
         render_key_diffs |-> args.key_diffs,
         render_type_diffs |-> args.type_diffs,
         render_value_diffs |-> args.value_diffs,
         render_array_diffs |-> args.array_diffs,
         read_from_file |-> args.read_from_file,
         write_to_file |-> args.write_to_file,
         write_to_html |-> args.write_to_html,
         file_a |-> path1,
         file_b |-> path2,
         array_same_order |-> args.array_same_order]

\* Option::unwrap_or_default on a component of a DiffCollection
unwrap_or_default(option) == IF option.some THEN option.vec ELSE <<>>

SavedConfig(k, t, v, a, fa, fb, same_order) ==
    [check_for_key_diffs |-> k, check_for_type_diffs |-> t, check_for_value_diffs |-> v,
     check_for_array_diffs |-> a, file_a |-> fa, file_b |-> fb, array_same_order |-> same_order]

\* SavedContext, the content of the result file
SavedContext(kd, td, vd, ad, saved_config) ==
    [exists |-> TRUE, key_diff |-> kd, type_diff |-> td, value_diff |-> vd,
     array_diff |-> ad, config |-> saved_config]

\* FileHandler::write_to_file: what is written to config.write_to_file
write_to_file(user_config, collection) ==
    SavedContext(unwrap_or_default(collection.key_diff),
                 unwrap_or_default(collection.type_diff),
                 unwrap_or_default(collection.value_diff),
                 unwrap_or_default(collection.array_diff),
                 SavedConfig(user_config.check_for_key_diffs,
                             user_config.check_for_type_diffs,
                             user_config.check_for_value_diffs,
                             user_config.check_for_array_diffs,
                             user_config.file_a.path, user_config.file_b.path,
                             user_config.array_same_order))

\* FileHandler::load_saved_results: the DiffCollection read from the file
load_saved_results(saved_data) ==
    DiffCollection(Some(saved_data.key_diff), Some(saved_data.type_diff),
                   Some(saved_data.value_diff), Some(saved_data.array_diff))

\* prettify_json_str: the text parsed and written again when it is JSON, and
\* the text itself when it is not
prettify_json_str(json_str) ==
    IF from_str(json_str).ok THEN value_to_string(from_str(json_str).value) ELSE json_str

prettify_data(data) == prettify_json_str(data)

Row(key, a, b) == [key |-> key, a |-> a, b |-> b]
Table(medium, category, rows) == [medium |-> medium, category |-> category, rows |-> rows]
Identical == Table("terminal", "message", <<"The data is identical!">>)

CHECKMARK == "CHECKMARK"
MULTIPLY == "MULTIPLY"

\* KeyTable::check_has
check_has(file_name, key_diff) == IF key_diff.has = file_name THEN CHECKMARK ELSE MULTIPLY

key_table_rows(data) ==
    [i \in 1..Len(data) |->
        Row(data[i].key, check_has(FileA, data[i]), check_has(FileB, data[i]))]
type_table_rows(data) ==
    [i \in 1..Len(data) |-> Row(data[i].key, data[i].type1, data[i].type2)]
value_table_rows(data) ==
    [i \in 1..Len(data) |->
        Row(data[i].key, prettify_data(data[i].value1), prettify_data(data[i].value2))]

\* the keys of data in the order of their first record
first_keys(data) ==
    LET scan[i \in 0..Len(data)] ==
            IF i = 0 THEN <<>>
            ELSE IF Contains(scan[i - 1], data[i].key) THEN scan[i - 1]
            ELSE Append(scan[i - 1], data[i].key)
    IN  scan[Len(data)]

\* group_by_key: one entry per key, holding the key's records in their order; the
\* HashMap yields the entries in an order of its own (h)
group_by_key(data) ==
    LET keys == first_keys(data)
    IN  [i \in 1..Len(keys) |->
            [key |-> keys[i], values |-> SelectSeq(data, LAMBDA ad : ad.key = keys[i])]]

\* the mutant of get_display_values_by_column: the descriptor is not looked at
get_display_values_by_column_unfiltered(values, diff_desc) ==
    [i \in 1..Len(values) |-> prettify_data(values[i].value)]

get_display_values_by_column(values, diff_desc) ==
    LET kept == SelectSeq(values, LAMBDA ad : ad.descriptor = diff_desc)
    IN  [i \in 1..Len(kept) |-> prettify_data(kept[i].value)]

\* ArrayTable::add_rows, and the same loop in render_html
array_table_rows(data, h) ==
    LET map == IF h = "forward" THEN group_by_key(data) ELSE Reverse(group_by_key(data))
    IN  [i \in 1..Len(map) |->
            Row(map[i].key,
                JoinWith(get_display_values_by_column(map[i].values, "AHas"), ",\n"),
                JoinWith(get_display_values_by_column(map[i].values, "BHas"), ",\n"))]

\* the tables of one medium: a category has a table when its render flag is set
\* and its sequence is present and not empty
tables(medium, cfg, collection, h) ==
    (IF cfg.render_key_diffs /\ collection.key_diff.some /\ collection.key_diff.vec # <<>>
     THEN <<Table(medium, "key",
                  IF medium = "html"
                  THEN [i \in 1..Len(collection.key_diff.vec) |->
                           Row(collection.key_diff.vec[i].key,
                               IF collection.key_diff.vec[i].has = FileA THEN "true" ELSE "false",
                               IF collection.key_diff.vec[i].has = FileB THEN "true" ELSE "false")]
                  ELSE key_table_rows(collection.key_diff.vec))>>
     ELSE <<>>)
    \o (IF cfg.render_type_diffs /\ collection.type_diff.some /\ collection.type_diff.vec # <<>>
        THEN <<Table(medium, "type", type_table_rows(collection.type_diff.vec))>>
        ELSE <<>>)
    \o (IF cfg.render_value_diffs /\ collection.value_diff.some
             /\ collection.value_diff.vec # <<>>
        THEN <<Table(medium, "value",
                     IF medium = "html"
                     THEN [i \in 1..Len(collection.value_diff.vec) |->
                              Row(collection.value_diff.vec[i].key,
                                  collection.value_diff.vec[i].value1,
                                  collection.value_diff.vec[i].value2)]
                     ELSE value_table_rows(collection.value_diff.vec))>>
        ELSE <<>>)
    \o (IF cfg.render_array_diffs /\ collection.array_diff.some
             /\ collection.array_diff.vec # <<>>
        THEN <<Table(medium, "array", array_table_rows(collection.array_diff.vec, h))>>
        ELSE <<>>)

\* the mutant of render_tables: the message is printed after the tables as well
render_tables_message_always(cfg, collection, h) ==
    tables("terminal", cfg, collection, h) \o <<Identical>>

\* App::render_tables: what is printed
render_tables(cfg, collection, h) ==
    LET rendered_tables == tables("terminal", cfg, collection, h)
    IN  IF rendered_tables = <<>> THEN <<Identical>> ELSE rendered_tables

\* App::render_html: the tables written to diff.html
render_html(cfg, collection, h) == tables("html", cfg, collection, h)

\* the documents the terminal application is run on
TerminalDocs ==
    { <<>>,
      <<Entry("x", Array(<<Number(1), Number(2)>>))>>,
      <<Entry("x", Array(<<Number(2), Number(3)>>))>>,
      <<Entry("nested", Object(<<Entry("x", Array(<<String("a")>>))>>)),
        Entry("x", Array(<<Number(1)>>))>>,
      <<Entry("nested", Object(<<Entry("x", Array(<<Number(1), Number(2)>>)),
                                 Entry("y", Number(1))>>)),
        Entry("x", Number(1))>>,
      <<Entry("nested", Object(<<Entry("x", Array(<<Number(2)>>))>>)),
        Entry("x", Array(<<Number(2), Number(3)>>))>>,
      <<Entry("nested", Object(<<Entry("y", Number(2))>>)), Entry("x", String("a"))>> }

InitTerminal ==
    /\ data1 \in TerminalDocs
    /\ data2 \in TerminalDocs
    /\ \E args \in Arguments :
          /\ config = parse_args(args)
          /\ array_same_order = args.array_same_order
    /\ pc = "start"
    /\ result = EmptyResult
    /\ diffs = NoDiffs
    /\ ran = {}
    /\ debug_assertions = FALSE
    /\ call = NoCall
    /\ file = NoFile
    /\ output = <<>>
    /\ loaded = NoDiffs

\* App::new.  Without read_from_file the two files are checked (collect_data).
\* With read_from_file the saved results are loaded first (a file that cannot be
\* opened panics); the paths are None then, so json_app and yaml_app are both
\* None and the constructor panics with "No valid files to check!".  diffs is
\* the DiffCollection of the last App that was constructed.
AppNew ==
    /\ pc = "start"
    /\ IF config.read_from_file = ""
       THEN /\ diffs' = check_for_diffs(data1, data2, config, working_context,
                                        array_same_order)
            /\ pc' = "constructed"
            /\ UNCHANGED loaded
       ELSE IF ~file.exists
       THEN /\ pc' = "panicked"
            /\ UNCHANGED <<diffs, loaded>>
       ELSE /\ loaded' = load_saved_results(file)
            /\ pc' = "panicked"
            /\ UNCHANGED diffs
    /\ UNCHANGED <<data1, data2, array_same_order, config, result, ran,
                   debug_assertions, call, file, output>>

\* App::execute: the result file is written, or diff.html, or the tables are
\* printed
Execute ==
    /\ pc = "constructed"
    /\ IF config.write_to_file.some
       THEN /\ file' = write_to_file(config, diffs)
            /\ UNCHANGED output
       ELSE IF config.write_to_html
       THEN /\ \E h \in HashOrders : output' = render_html(config, diffs, h)
            /\ UNCHANGED file
       ELSE /\ \E h \in HashOrders : output' = render_tables(config, diffs, h)
            /\ UNCHANGED file
    /\ pc' = "executed"
    /\ UNCHANGED <<data1, data2, array_same_order, config, result, diffs, ran,
                   debug_assertions, call, loaded>>

\* the program is started again with -r on the file the run before has written
RunAgain ==
    /\ pc = "executed"
    /\ file.exists
    /\ \E args \in Arguments :
          /\ args.read_from_file = SavedFile
          /\ args.write_to_file = NoPath
          /\ args.array_same_order = array_same_order
          /\ config' = parse_args(args)
    /\ pc' = "start"
    /\ output' = <<>>
    /\ UNCHANGED <<data1, data2, array_same_order, result, diffs, ran,
                   debug_assertions, call, file, loaded>>

NextTerminal == AppNew \/ Execute \/ RunAgain

TerminalSpec == InitTerminal /\ [][NextTerminal]_vars

----------------------------------------------------------------------------
(* The helpers of compare_field called on their own, as their tests call them *)

HelperValues ==
    Scalars \cup
    {Array(<<>>), Array(<<String("a")>>), Array(<<Number(1)>>),
     Object(<<>>), Object(<<Entry("y", String("a"))>>), Object(<<Entry("y", Number(1))>>),
     Object(<<Entry("y", Null)>>)}

InitHelper ==
    /\ data1 = <<>>
    /\ data2 = <<>>
    /\ array_same_order \in BOOLEAN
    /\ config = NoConfig
    /\ pc = "start"
    /\ result = EmptyResult
    /\ diffs = NoDiffs
    /\ ran = {}
    /\ debug_assertions \in BOOLEAN
    /\ call \in [a : HelperValues, b : HelperValues]
    /\ file = NoFile
    /\ output = <<>>
    /\ loaded = NoDiffs

\* handle_different_types("key", &a, &b)
CallHandleDifferentTypes ==
    /\ pc = "start"
    /\ result' = TypeDiffsOnly(handle_different_types("key", call.a, call.b))
    /\ pc' = "handle_different_types"
    /\ UNCHANGED <<data1, data2, array_same_order, config, diffs, ran,
                   debug_assertions, call, file, output, loaded>>

\* handle_one_element_null_primitives("key", &a, &b)
CallHandleOneElementNullPrimitives ==
    /\ pc = "start"
    /\ result' = ValueDiffsOnly(handle_one_element_null_primitives("key", call.a, call.b))
    /\ pc' = "handle_one_element_null_primitives"
    /\ UNCHANGED <<data1, data2, array_same_order, config, diffs, ran,
                   debug_assertions, call, file, output, loaded>>

\* handle_one_element_null_arrays("key", &a, &b)
CallHandleOneElementNullArrays ==
    /\ pc = "start"
    /\ result' = ArrayDiffsOnly(handle_one_element_null_arrays("key", call.a, call.b))
    /\ pc' = "handle_one_element_null_arrays"
    /\ UNCHANGED <<data1, data2, array_same_order, config, diffs, ran,
                   debug_assertions, call, file, output, loaded>>

\* handle_one_element_null_objects("key", &a, &b, &working_context)
CallHandleOneElementNullObjects ==
    /\ pc = "start"
    /\ result' = handle_one_element_null_objects("key", call.a, call.b, working_context)
    /\ pc' = "handle_one_element_null_objects"
    /\ UNCHANGED <<data1, data2, array_same_order, config, diffs, ran,
                   debug_assertions, call, file, output, loaded>>

\* compare_field("key", &a, &b, &working_context, array_same_order)
CallCompareField ==
    /\ pc = "start"
    /\ \E h \in HashOrders :
          result' = compare_field("key", call.a, call.b, working_context,
                                  array_same_order, h)
    /\ pc' = "compare_field"
    /\ UNCHANGED <<data1, data2, array_same_order, config, diffs, ran,
                   debug_assertions, call, file, output, loaded>>

NextHelper ==
    \/ CallHandleDifferentTypes
    \/ CallHandleOneElementNullPrimitives
    \/ CallHandleOneElementNullArrays
    \/ CallHandleOneElementNullObjects
    \/ CallCompareField

HelperSpec == InitHelper /\ [][NextHelper]_vars

----------------------------------------------------------------------------
(* What the claims speak about *)

Compared == pc = "compared"
ReturnedResult == pc = "compared" /\ ~result.panic

StartsWith(str, prefix) ==
    Len(str) >= Len(prefix) /\ SubSeq(str, 1, Len(prefix)) = prefix

\* the number of elements of xs equal to x
Occurrences(xs, x) == Cardinality({i \in 1..Len(xs) : xs[i] = x})

\* Every pair of values the comparison visits together, with its path: the two
\* roots, the values of a key both objects hold, and the elements at the same
\* index of two arrays of equal length when array_same_order is set.
RECURSIVE VisitedPairs(_, _, _, _)
VisitedPairs(key, a, b, same_order) ==
    {[key |-> key, a |-> a, b |-> b]}
    \cup IF a.t = "object" /\ b.t = "object"
         THEN UNION {VisitedPairs(child_key(key, k), Get(a.ov, k), Get(b.ov, k), same_order) :
                        k \in Keys(a.ov) \cap Keys(b.ov)}
         ELSE IF a.t = "array" /\ b.t = "array" /\ same_order /\ Len(a.av) = Len(b.av)
         THEN UNION {VisitedPairs(item_key(key, i - 1), a.av[i], b.av[i], same_order) :
                        i \in 1..Len(a.av)}
         ELSE {}

Visited == VisitedPairs("", Object(data1), Object(data2), array_same_order)
ObjectPairs == {p \in Visited : p.a.t = "object" /\ p.b.t = "object"}
ArrayPairs == {p \in Visited : p.a.t = "array" /\ p.b.t = "array"}
\* the array pairs that are not compared index by index
UnorderedArrayPairs ==
    {p \in ArrayPairs : ~array_same_order \/ Len(p.a.av) # Len(p.b.av)}
OrderedArrayPairs ==
    {p \in ArrayPairs : array_same_order /\ Len(p.a.av) = Len(p.b.av)}

\* the ArrayDiff records of one path, and the values of those with one tag
ArrayDiffsAt(key) == SelectSeq(result.array_diff, LAMBDA d : d.key = key)
TagValues(key, desc) ==
    LET recs == SelectSeq(result.array_diff, LAMBDA d : d.key = key /\ d.descriptor = desc)
    IN  [i \in 1..Len(recs) |-> recs[i].value]

\* the renderings of the elements of xs that do not occur in ys
Rendered(xs) == [i \in 1..Len(xs) |-> value_to_string(xs[i])]
WithoutCounterpart(xs, ys) ==
    Rendered(SelectSeq(xs, LAMBDA x : \A j \in 1..Len(ys) : ys[j] # x))

----------------------------------------------------------------------------
(* C1 *)

\* C1: comparing an object-rooted document against itself returns empty key,
\* type, value and array diff sequences, for either value of array_same_order.
C1_SelfCompareIsEmpty ==
    (Compared /\ data1 = data2) => result = EmptyResult

\* a document with a nested object and an array is compared against itself,
\* order-insensitively
C1_Witness ==
    /\ Compared
    /\ data1 = data2
    /\ ~array_same_order
    /\ data1 = <<Entry("nested", Object(<<Entry("y", Number(1))>>)),
                 Entry("x", Array(<<Number(2), Number(1)>>))>>

----------------------------------------------------------------------------
(* C2 *)

\* C2: at every pair of objects compared at the same path, each key held by
\* only one of the two objects gets exactly one KeyDiff, at the key's path, with
\* has = the label of the side that holds it and misses = the other label; a key
\* held by both objects gets no KeyDiff at its path.
C2_OneKeyDiffPerOneSidedKey ==
    ReturnedResult =>
        \A p \in ObjectPairs :
            \A k \in Keys(p.a.ov) \cup Keys(p.b.ov) :
                LET path == child_key(p.key, k)
                    hits == {i \in 1..Len(result.key_diff) : result.key_diff[i].key = path}
                IN  IF Has(p.a.ov, k) /\ Has(p.b.ov, k) THEN hits = {}
                    ELSE /\ Cardinality(hits) = 1
                         /\ \A i \in hits :
                               IF Has(p.a.ov, k)
                               THEN result.key_diff[i] = KeyDiff(path, FileA, FileB)
                               ELSE result.key_diff[i] = KeyDiff(path, FileB, FileA)

\* the root objects share "nested" and only B has "x"; the nested objects are
\* compared and only A has "y"
C2_Witness ==
    /\ ReturnedResult
    /\ data1 = <<Entry("nested", Object(<<Entry("y", Number(1))>>))>>
    /\ data2 = <<Entry("nested", Object(<<>>)), Entry("x", Number(1))>>
    /\ Len(result.key_diff) = 2

----------------------------------------------------------------------------
(* C3 *)

\* C3: if compare(A, B) returns a KeyDiff at path P whose holder is side A, then
\* compare(B, A) returns exactly one KeyDiff at P, and its holder is the second
\* side.
C3_KeyDiffAntisymmetry ==
    ReturnedResult =>
        \A i \in 1..Len(result.key_diff) :
            result.key_diff[i].has = FileA =>
                \A h \in HashOrders :
                    LET swapped == compare_objects("", data2, data1, working_context,
                                                   array_same_order, h)
                        path == result.key_diff[i].key
                        hits == {j \in 1..Len(swapped.key_diff) : swapped.key_diff[j].key = path}
                    IN  /\ ~swapped.panic
                        /\ Cardinality(hits) = 1
                        /\ \A j \in hits : swapped.key_diff[j] = KeyDiff(path, FileB, FileA)

\* A alone holds "x" at the root and "y" in the nested object
C3_Witness ==
    /\ ReturnedResult
    /\ data1 = <<Entry("nested", Object(<<Entry("y", String("a"))>>)), Entry("x", Number(1))>>
    /\ data2 = <<Entry("nested", Object(<<>>))>>
    /\ Len(result.key_diff) = 2
    /\ \A i \in 1..Len(result.key_diff) : result.key_diff[i].has = FileA

----------------------------------------------------------------------------
(* C4 *)

\* C4 as stated: A = {"x":"1","nested":{"y":true}} against B = {"x":"2"} yields
\* exactly one KeyDiff, at path "nested.y" and held by A, exactly one ValueDiff
\* ("x", "1", "2") and no TypeDiff.
C4_AsStated ==
    (Compared /\ data1 = ExampleA /\ data2 = ExampleB) =>
        /\ ~result.panic
        /\ result.key_diff = <<KeyDiff("nested.y", FileA, FileB)>>
        /\ result.value_diff = <<ValueDiff("x", "1", "2")>>
        /\ result.type_diff = <<>>

\* C4 amended: the one KeyDiff is at path "nested", the key that B lacks; the
\* comparison does not descend into an object that only one side holds.
C4_MissingObjectReportedAtItsKey ==
    (Compared /\ data1 = ExampleA /\ data2 = ExampleB) =>
        /\ ~result.panic
        /\ result.key_diff = <<KeyDiff("nested", FileA, FileB)>>
        /\ result.value_diff = <<ValueDiff("x", "1", "2")>>
        /\ result.type_diff = <<>>

C4_Witness == Compared /\ data1 = ExampleA /\ data2 = ExampleB

----------------------------------------------------------------------------
(* C5 *)

\* C5: for an array pair handled order-insensitively, the AHas records are the
\* elements of A without a counterpart in B, the BHas records the elements of B
\* without a counterpart in A, AMisses carries the values of BHas and BMisses
\* those of AHas, so the path holds 2 * (|AHas| + |BHas|) records; the arrays
\* [1,2,3,4,5,6,7] and [5,7,3,11,5,2,1] give AHas = {4, 6}, BHas = {11} and six
\* records, and [1,...,8] against the same B gives eight.
C5_UnorderedArrayDiffRecords ==
    ReturnedResult =>
        /\ \A p \in UnorderedArrayPairs :
              /\ TagValues(p.key, "AHas") = WithoutCounterpart(p.a.av, p.b.av)
              /\ TagValues(p.key, "BHas") = WithoutCounterpart(p.b.av, p.a.av)
              /\ TagValues(p.key, "AMisses") = TagValues(p.key, "BHas")
              /\ TagValues(p.key, "BMisses") = TagValues(p.key, "AHas")
              /\ Len(ArrayDiffsAt(p.key)) =
                    2 * (Len(TagValues(p.key, "AHas")) + Len(TagValues(p.key, "BHas")))
        /\ (data1 = TestArrA /\ data2 = TestArrB /\ ~array_same_order) =>
              /\ TagValues("key", "AHas") = <<"4", "6">>
              /\ TagValues("key", "BHas") = <<"11">>
              /\ Len(result.array_diff) = 6
        /\ (data1 = TestArrA8 /\ data2 = TestArrB) =>
              /\ TagValues("key", "AHas") = <<"4", "6", "8">>
              /\ TagValues("key", "BHas") = <<"11">>
              /\ Len(result.array_diff) = 8

\* the arrays of the test, compared order-insensitively
C5_Witness ==
    /\ ReturnedResult
    /\ data1 = TestArrA
    /\ data2 = TestArrB
    /\ ~array_same_order
    /\ Len(result.array_diff) = 6

----------------------------------------------------------------------------
(* C6 *)

\* the number of records at a path with one tag and one rendered value
TagCount(key, desc, value) ==
    Cardinality({i \in 1..Len(result.array_diff) :
                    /\ result.array_diff[i].key = key
                    /\ result.array_diff[i].descriptor = desc
                    /\ result.array_diff[i].value = value})

\* C6 as stated: equal elements are matched one-to-one by multiplicity: a value
\* that occurs m times in A and n times in B gives exactly m - n AHas records
\* when m > n and exactly n - m BHas records when n > m.
C6_AsStated ==
    ReturnedResult =>
        \A p \in UnorderedArrayPairs :
            \A x \in {p.a.av[i] : i \in 1..Len(p.a.av)} \cup {p.b.av[i] : i \in 1..Len(p.b.av)} :
                LET m == Occurrences(p.a.av, x)
                    n == Occurrences(p.b.av, x)
                IN  /\ m > n => TagCount(p.key, "AHas", value_to_string(x)) = m - n
                    /\ n > m => TagCount(p.key, "BHas", value_to_string(x)) = n - m

\* C6 amended: equal elements are matched by membership, not by multiplicity: a
\* value that occurs m times in A gives exactly m AHas records when it does not
\* occur in B and none when it occurs in B at least once; symmetrically a value
\* that occurs n times in B gives n BHas records when it does not occur in A and
\* none otherwise.
C6_MatchedByMembership ==
    ReturnedResult =>
        \A p \in UnorderedArrayPairs :
            \A x \in {p.a.av[i] : i \in 1..Len(p.a.av)} \cup {p.b.av[i] : i \in 1..Len(p.b.av)} :
                LET m == Occurrences(p.a.av, x)
                    n == Occurrences(p.b.av, x)
                IN  /\ TagCount(p.key, "AHas", value_to_string(x)) = (IF n = 0 THEN m ELSE 0)
                    /\ TagCount(p.key, "BHas", value_to_string(x)) = (IF m = 0 THEN n ELSE 0)

\* a value that is twice in A and once in B: no AHas record for it
C6_Witness ==
    /\ ReturnedResult
    /\ data1 = <<Entry("x", Array(<<Number(1), Number(1)>>))>>
    /\ data2 = <<Entry("x", Array(<<Number(1)>>))>>
    /\ result.array_diff = <<>>

----------------------------------------------------------------------------
(* C7 *)

TagRank(desc) ==
    CASE desc = "AHas" -> 1 [] desc = "AMisses" -> 2 [] desc = "BHas" -> 3 [] desc = "BMisses" -> 4

\* xs can be had from ys by dropping elements
RECURSIVE IsSubsequence(_, _)
IsSubsequence(xs, ys) ==
    IF Len(xs) = 0 THEN TRUE
    ELSE IF Len(ys) = 0 THEN FALSE
    ELSE IF xs[1] = ys[1] THEN IsSubsequence(Tail(xs), Tail(ys))
    ELSE IsSubsequence(xs, Tail(ys))

\* C7: the ArrayDiff records of one array path come in the order AHas*,
\* AMisses*, BHas*, BMisses*, and the records of one tag follow the element
\* order of the array they are taken from (AHas and BMisses from A, AMisses and
\* BHas from B).
C7_ArrayDiffTagOrder ==
    ReturnedResult =>
        /\ \A i, j \in 1..Len(result.array_diff) :
              (i < j /\ result.array_diff[i].key = result.array_diff[j].key) =>
                  TagRank(result.array_diff[i].descriptor)
                      <= TagRank(result.array_diff[j].descriptor)
        /\ \A p \in UnorderedArrayPairs :
              /\ IsSubsequence(TagValues(p.key, "AHas"), Rendered(p.a.av))
              /\ IsSubsequence(TagValues(p.key, "BMisses"), Rendered(p.a.av))
              /\ IsSubsequence(TagValues(p.key, "AMisses"), Rendered(p.b.av))
              /\ IsSubsequence(TagValues(p.key, "BHas"), Rendered(p.b.av))

\* one array pair with records of all four tags, two of them AHas
C7_Witness ==
    /\ ReturnedResult
    /\ data1 = TestArrA
    /\ data2 = TestArrB
    /\ ~array_same_order
    /\ [i \in 1..Len(result.array_diff) |-> result.array_diff[i].descriptor]
          = <<"AHas", "AHas", "AMisses", "BHas", "BMisses", "BMisses">>

----------------------------------------------------------------------------
(* C8 *)

\* C8: with array_same_order set and two arrays of equal length at path arr,
\* every index i whose two elements are scalars of one type with different
\* values gets exactly one ValueDiff, at "arr[i]", carrying the two values, and
\* no ArrayDiff has the path arr.
C8_SameOrderIndexWise ==
    ReturnedResult =>
        /\ \A p \in OrderedArrayPairs :
              /\ \A i \in 1..Len(p.a.av) :
                    LET x == p.a.av[i]
                        y == p.b.av[i]
                        path == p.key \o "[" \o ToString(i - 1) \o "]"
                        hits == SelectSeq(result.value_diff, LAMBDA d : d.key = path)
                    IN  (IsPrimitive(x) /\ x.t = y.t /\ x # y) =>
                            hits = <<ValueDiff(path, primitive_to_string(x),
                                               primitive_to_string(y))>>
              /\ ArrayDiffsAt(p.key) = <<>>
        /\ (data1 = TestArrA /\ data2 = TestArrSameOrderB /\ array_same_order) =>
              /\ result.value_diff = <<ValueDiff("key[0]", "1", "5"), ValueDiff("key[3]", "4", "5"),
                                       ValueDiff("key[5]", "6", "8"), ValueDiff("key[6]", "7", "1")>>
              /\ result.array_diff = <<>>

\* two arrays of length two that differ at index 1 only
C8_Witness ==
    /\ ReturnedResult
    /\ array_same_order
    /\ data1 = <<Entry("x", Array(<<Number(1), Number(1)>>))>>
    /\ data2 = <<Entry("x", Array(<<Number(1), Number(2)>>))>>
    /\ result.value_diff = <<ValueDiff("x[1]", "1", "2")>>

----------------------------------------------------------------------------
(* C9 *)

\* C9: when array_same_order is not set or the two arrays at path arr differ in
\* length, the comparison does not descend into the elements: no KeyDiff,
\* TypeDiff or ValueDiff has a path that begins with "arr[", and none is
\* reported at arr itself: the pair is reported by ArrayDiff records only.
C9_NoDescentIntoUnorderedArrays ==
    ReturnedResult =>
        \A p \in UnorderedArrayPairs :
            LET below(d) == d.key = p.key \/ StartsWith(d.key, p.key \o "[")
            IN  /\ \A i \in 1..Len(result.key_diff) : ~below(result.key_diff[i])
                /\ \A i \in 1..Len(result.type_diff) : ~below(result.type_diff[i])
                /\ \A i \in 1..Len(result.value_diff) : ~below(result.value_diff[i])

\* two arrays of one object each, the objects differ in the value of "y": the
\* difference is reported as array diffs of the whole elements
C9_Witness ==
    /\ ReturnedResult
    /\ ~array_same_order
    /\ data1 = <<Entry("x", Array(<<Object(<<Entry("y", Number(1))>>)>>))>>
    /\ data2 = <<Entry("x", Array(<<Object(<<Entry("y", Number(2))>>)>>))>>
    /\ result.value_diff = <<>>
    /\ Len(result.array_diff) = 4

----------------------------------------------------------------------------
(* C10 *)

Checked == pc = "checked"

\* C10: each component of the DiffCollection a new check returns is present
\* exactly when its category is enabled in the configuration, whatever the
\* documents hold; with no category enabled all four are absent.
C10_PresentIffEnabled ==
    Checked =>
        /\ diffs.key_diff.some <=> config.check_for_key_diffs
        /\ diffs.type_diff.some <=> config.check_for_type_diffs
        /\ diffs.value_diff.some <=> config.check_for_value_diffs
        /\ diffs.array_diff.some <=> config.check_for_array_diffs
        /\ config = Config(FALSE, FALSE, FALSE, FALSE) => diffs = NoDiffs

\* key and array checks enabled on documents that differ in type and in array
\* content only: the key component is present and empty, the array component
\* present with records, the type and value components absent although the
\* documents differ in type
C10_Witness ==
    /\ Checked
    /\ config = Config(TRUE, FALSE, FALSE, TRUE)
    /\ ~array_same_order
    /\ data1 = <<Entry("nested", Object(<<>>)), Entry("x", Array(<<Number(1), Number(2)>>))>>
    /\ data2 = <<Entry("nested", Object(<<>>)), Entry("x", Array(<<Number(1)>>))>>
    /\ diffs.key_diff = Some(<<>>)
    /\ diffs.type_diff = None
    /\ diffs.value_diff = None
    /\ diffs.array_diff.some /\ Len(diffs.array_diff.vec) = 2

----------------------------------------------------------------------------
(* C11 *)

\* C11: the comparison is deterministic: every run of compare_objects on the
\* same two documents, labels and array_same_order returns the result this run
\* returned, the order of the records inside each sequence included (whatever
\* order the HashMap of B's keys is iterated in).
C11_Deterministic ==
    Compared =>
        \A h \in HashOrders :
            compare_objects("", data1, data2, working_context, array_same_order, h) = result

----------------------------------------------------------------------------
(* C12 *)

----------------------------------------------------------------------------
(* C13 *)

\* the type tags of ValueType
TypeTags == {"null", "bool", "number", "string", "array", "object"}

\* the visited pairs of which one value is null and the other an object
NullObjectPairs ==
    {p \in Visited : (is_null(p.a) /\ p.b.t = "object") \/ (p.a.t = "object" /\ is_null(p.b))}

\* C13 as stated: every TypeDiff has a path at which both documents define a
\* value, its two type tags are the different tags of those two values, drawn
\* from {null, bool, number, string, array, object}; none is at a path one
\* document lacks and none carries an empty tag.
C13_AsStated ==
    ReturnedResult =>
        \A i \in 1..Len(result.type_diff) :
            LET d == result.type_diff[i]
            IN  /\ d.type1 \in TypeTags
                /\ d.type2 \in TypeTags
                /\ d.type1 # d.type2
                /\ \E p \in Visited :
                      p.key = d.key /\ d.type1 = p.a.t /\ d.type2 = p.b.t

\* C13 amended: every TypeDiff is of one of two kinds.  Either its path is one
\* at which both documents hold a non-null value, and its tags are the different
\* tags of these values; or its path is P.k where one document holds null at P
\* and the other an object with the key k, and it carries the tag of k's value
\* on the object's side and the empty string on the side of the null.
C13_TypeDiffKinds ==
    ReturnedResult =>
        \A i \in 1..Len(result.type_diff) :
            LET d == result.type_diff[i]
            IN  \/ \E p \in Visited :
                      /\ p.key = d.key
                      /\ ~is_null(p.a) /\ ~is_null(p.b)
                      /\ p.a.t # p.b.t
                      /\ d.type1 = p.a.t /\ d.type2 = p.b.t
                \/ \E p \in NullObjectPairs :
                      LET object == IF is_null(p.a) THEN p.b.ov ELSE p.a.ov
                      IN  \E k \in Keys(object) :
                             /\ d.key = (IF p.key = "" THEN k ELSE p.key \o "." \o k)
                             /\ Get(object, k).t \in TypeTags \ {"null"}
                             /\ d.type1 = (IF is_null(p.a) THEN "" ELSE Get(object, k).t)
                             /\ d.type2 = (IF is_null(p.a) THEN Get(object, k).t ELSE "")

\* one TypeDiff of each kind: "nested" is null in A and an object in B, "x" is a
\* number in A and a string in B
C13_Witness ==
    /\ ReturnedResult
    /\ data1 = <<Entry("nested", Null), Entry("x", Number(1))>>
    /\ data2 = <<Entry("nested", Object(<<Entry("y", String("a"))>>)), Entry("x", String("a"))>>
    /\ result.type_diff = <<TypeDiff("nested.y", "", "string"), TypeDiff("x", "number", "string")>>

----------------------------------------------------------------------------
(* C14 *)

\* the TypeDiff records at one path
TypeDiffsAt(key) == SelectSeq(result.type_diff, LAMBDA d : d.key = key)

\* C14 as stated: for every path both documents define and the comparison
\* visits, if the two values have different type tags, null on one side and a
\* non-null type on the other included, exactly one TypeDiff is emitted at that
\* path with the two tags, and if the tags are equal none is emitted there.
C14_AsStated ==
    ReturnedResult =>
        \A p \in Visited \ {[key |-> "", a |-> Object(data1), b |-> Object(data2)]} :
            TypeDiffsAt(p.key) =
                (IF p.a.t # p.b.t THEN <<TypeDiff(p.key, p.a.t, p.b.t)>> ELSE <<>>)

\* C14 amended: at a visited path where both values are non-null, exactly one
\* TypeDiff with the two tags is emitted when the tags differ and none when they
\* are equal; where one value is null and the other is not, no TypeDiff is
\* emitted at that path (the pair is reported by a ValueDiff, by ArrayDiffs or
\* by records at the paths of the object's keys).
C14_TypeDiffForNonNullMismatch ==
    ReturnedResult =>
        \A p \in Visited \ {[key |-> "", a |-> Object(data1), b |-> Object(data2)]} :
            TypeDiffsAt(p.key) =
                (IF p.a.t # p.b.t /\ ~is_null(p.a) /\ ~is_null(p.b)
                 THEN <<TypeDiff(p.key, p.a.t, p.b.t)>>
                 ELSE <<>>)

\* "nested" is null against an object and "x" is a string against null: no
\* TypeDiff at "nested" nor at "x"
C14_Witness ==
    /\ ReturnedResult
    /\ data1 = <<Entry("nested", Null), Entry("x", String("a"))>>
    /\ data2 = <<Entry("nested", Object(<<Entry("y", String("a"))>>)), Entry("x", Null)>>
    /\ result.type_diff = <<TypeDiff("nested.y", "", "string")>>
    /\ result.value_diff = <<ValueDiff("nested.y", "", "a"), ValueDiff("x", "a", "")>>

----------------------------------------------------------------------------
(* C15 *)

\* the visited pairs reached from the roots through pairs of objects only, each
\* with its dotted path
RECURSIVE PairsBelowObjects(_, _, _)
PairsBelowObjects(key, a, b) ==
    UNION {{[key |-> (IF key = "" THEN k ELSE key \o "." \o k),
             a |-> Get(a, k), b |-> Get(b, k)]}
           \cup (IF Get(a, k).t = "object" /\ Get(b, k).t = "object"
                 THEN PairsBelowObjects(IF key = "" THEN k ELSE key \o "." \o k,
                                        Get(a, k).ov, Get(b, k).ov)
                 ELSE {}) :
           k \in Keys(a) \cap Keys(b)}

BelowObjects == PairsBelowObjects("", data1, data2)

\* the number of TypeDiff records equal to d
TypeDiffCount(d) == Cardinality({i \in 1..Len(result.type_diff) : result.type_diff[i] = d})

\* C15 as stated: the type comparison goes on below matching object parents, and
\* every type mismatch at any depth below them, null against a non-null type
\* included, is reported by a TypeDiff at its full dotted path.
C15_AsStated ==
    ReturnedResult =>
        \A p \in BelowObjects :
            p.a.t # p.b.t => TypeDiffCount(TypeDiff(p.key, p.a.t, p.b.t)) = 1

\* C15 amended: every mismatch between two non-null types at any depth below
\* type-matching object parents is reported once, at its full dotted path; the
\* documents of the test give the TypeDiffs at "type_diff_a_string_b_int" and at
\* "nested_object.type_diff_a_string_b_int" and no other.
C15_NestedMismatchReported ==
    ReturnedResult =>
        /\ \A p \in BelowObjects :
              (p.a.t # p.b.t /\ ~is_null(p.a) /\ ~is_null(p.b)) =>
                  TypeDiffCount(TypeDiff(p.key, p.a.t, p.b.t)) = 1
        /\ (data1 = TestObjectA /\ data2 = TestObjectB) =>
              /\ TypeDiffCount(TypeDiff("type_diff_a_string_b_int", "string", "number")) = 1
              /\ TypeDiffCount(TypeDiff("nested_object.type_diff_a_string_b_int",
                                        "string", "number")) = 1
              /\ Len(result.type_diff) = 2
        /\ (data1 = DeepA /\ data2 = DeepB) =>
              result.type_diff = <<TypeDiff("nested.inner.y", "string", "number")>>

\* a string against a number three objects deep; beside it null against a
\* string, which gives a ValueDiff and no TypeDiff
C15_Witness ==
    /\ ReturnedResult
    /\ data1 = DeepA
    /\ data2 = DeepB
    /\ result.type_diff = <<TypeDiff("nested.inner.y", "string", "number")>>
    /\ \E i \in 1..Len(result.value_diff) :
          result.value_diff[i] = ValueDiff("nested.inner.z", "", "a")

----------------------------------------------------------------------------
(* C16 *)

\* the KeyDiff records at a path or below it
KeyDiffsAtOrBelow(key) ==
    SelectSeq(result.key_diff,
              LAMBDA d : d.key = key \/ StartsWith(d.key, key \o ".")
                                     \/ StartsWith(d.key, key \o "["))

\* C16 as stated: for a key present on both sides whose two values differ in
\* type (null on one side and an object on the other, for example), no KeyDiff
\* is emitted at that key's path or at any path below it.
C16_AsStated ==
    ReturnedResult =>
        \A p \in Visited :
            (p.key # "" /\ p.a.t # p.b.t) => KeyDiffsAtOrBelow(p.key) = <<>>

\* C16 amended: for a key present on both sides whose two values differ in
\* type, no KeyDiff is emitted at that key's path, and none below it unless one
\* value is null and the other an object: then every direct key k of the object
\* gets exactly one KeyDiff, at P.k, held by the side of the object, and these
\* are the only KeyDiffs at or below P.
C16_KeyDiffsUnderTypeMismatch ==
    ReturnedResult =>
        \A p \in Visited :
            (p.key # "" /\ p.a.t # p.b.t) =>
                IF p \in NullObjectPairs
                THEN LET object == IF is_null(p.a) THEN p.b.ov ELSE p.a.ov
                         has == IF is_null(p.a) THEN FileB ELSE FileA
                         misses == IF is_null(p.a) THEN FileA ELSE FileB
                     IN  KeyDiffsAtOrBelow(p.key) =
                            [i \in 1..Len(object) |->
                                KeyDiff(p.key \o "." \o object[i].k, has, misses)]
                ELSE KeyDiffsAtOrBelow(p.key) = <<>>

\* "nested" is an object in A and null in B: its key "y" gets a KeyDiff held by
\* A; "x" is an array against an object with a key: no KeyDiff at or below "x"
C16_Witness ==
    /\ ReturnedResult
    /\ data1 = <<Entry("nested", Object(<<Entry("y", String("a"))>>)),
                 Entry("x", Array(<<Number(1)>>))>>
    /\ data2 = <<Entry("nested", Null), Entry("x", Object(<<Entry("y", String("a"))>>))>>
    /\ result.key_diff = <<KeyDiff("nested.y", FileA, FileB)>>
    /\ result.type_diff = <<TypeDiff("nested.y", "string", ""), TypeDiff("x", "array", "object")>>

----------------------------------------------------------------------------
(* C17 *)

\* C17: the comparison is total: for every pair of object-rooted documents and
\* either value of array_same_order, compare_objects returns a result and does
\* not panic, also when a key holds null on one side and a number, a boolean, an
\* array with non-string elements or an object with non-string values on the
\* other.
C17_Total == Compared => ~result.panic

----------------------------------------------------------------------------
(* C18 *)

\* Every path the grammar gives the nodes below a value: a key directly under
\* the root is the bare key, a key under a non-empty parent is parent "." key,
\* an array element is parent "[i]".
RECURSIVE GrammarPaths(_, _)
GrammarPaths(parent, v) ==
    IF v.t = "object"
    THEN UNION {LET path == IF parent = "" THEN v.ov[i].k ELSE parent \o "." \o v.ov[i].k
                IN  {path} \cup GrammarPaths(path, v.ov[i].v) : i \in 1..Len(v.ov)}
    ELSE IF v.t = "array"
    THEN UNION {LET path == parent \o "[" \o ToString(i - 1) \o "]"
                IN  {path} \cup GrammarPaths(path, v.av[i]) : i \in 1..Len(v.av)}
    ELSE {}

\* the paths of all the records of a result
RecordPaths ==
    {result.key_diff[i].key : i \in 1..Len(result.key_diff)}
    \cup {result.type_diff[i].key : i \in 1..Len(result.type_diff)}
    \cup {result.value_diff[i].key : i \in 1..Len(result.value_diff)}
    \cup {result.array_diff[i].key : i \in 1..Len(result.array_diff)}

\* C18: the path of every emitted record is the path the grammar gives a node of
\* one of the two documents (bare key at the root, parent "." key below, parent
\* "[i]" for an element), and the third element of the array "array" inside
\* "nested" has the path "nested.array[2]".
C18_PathGrammar ==
    ReturnedResult =>
        /\ RecordPaths \subseteq
              GrammarPaths("", Object(data1)) \cup GrammarPaths("", Object(data2))
        /\ (data1 = DeepA /\ data2 = DeepB /\ array_same_order) =>
              /\ result.value_diff = <<ValueDiff("nested.array[2]", "3", "4"),
                                       ValueDiff("nested.inner.z", "", "a")>>
              /\ result.type_diff = <<TypeDiff("nested.inner.y", "string", "number")>>
        /\ (data1 = ExampleA /\ data2 = ExampleB) =>
              RecordPaths = {"nested", "x"}

\* the arrays "array" inside "nested" differ in their third element
C18_Witness ==
    /\ ReturnedResult
    /\ array_same_order
    /\ data1 = DeepA
    /\ data2 = DeepB
    /\ "nested.array[2]" \in RecordPaths

----------------------------------------------------------------------------
(* C19 *)

\* the number of nodes of a value
RECURSIVE Size(_)
RECURSIVE SizeOfAll(_)
SizeOfAll(vs) == IF Len(vs) = 0 THEN 0 ELSE Size(vs[1]) + SizeOfAll(Tail(vs))
Size(v) ==
    1 + (IF v.t = "object" THEN SizeOfAll([i \in 1..Len(v.ov) |-> v.ov[i].v])
         ELSE IF v.t = "array" THEN SizeOfAll(v.av)
         ELSE 0)

\* the pairs that the comparison of the pair p passes to compare_field
ChildPairs(p) ==
    IF p.a.t = "object" /\ p.b.t = "object"
    THEN {[a |-> Get(p.a.ov, k), b |-> Get(p.b.ov, k)] : k \in Keys(p.a.ov) \cap Keys(p.b.ov)}
    ELSE IF p.a.t = "array" /\ p.b.t = "array" /\ array_same_order /\ Len(p.a.av) = Len(p.b.av)
    THEN {[a |-> p.a.av[i], b |-> p.b.av[i]] : i \in 1..Len(p.a.av)}
    ELSE {}

\* C19: every comparison run terminates: each recursive step is applied to
\* strict children of the values of the step before, so the recursion ends, and
\* a result is returned.
C19_TerminatesWithResult ==
    Compared =>
        /\ \A p \in Visited :
              \A c \in ChildPairs(p) : Size(c.a) < Size(p.a) /\ Size(c.b) < Size(p.b)
        /\ ~result.panic

----------------------------------------------------------------------------
(* C20 *)

\* the visited pairs of two different scalars of one type: the pairs
\* compare_primitives reports
ScalarDiffPairs == {p \in Visited : IsPrimitive(p.a) /\ p.a.t = p.b.t /\ p.a # p.b}

ValueDiffsAt(key) == SelectSeq(result.value_diff, LAMBDA d : d.key = key)

\* C20 as stated: for every scalar (string, number, boolean) recorded as
\* value_a or value_b of a ValueDiff, parsing the recorded text gives back the
\* scalar, with its type tag and value.
C20_AsStated ==
    ReturnedResult =>
        \A p \in ScalarDiffPairs :
            /\ Len(ValueDiffsAt(p.key)) = 1
            /\ from_str(ValueDiffsAt(p.key)[1].value1) = Parsed(p.a)
            /\ from_str(ValueDiffsAt(p.key)[1].value2) = Parsed(p.b)

\* C20 amended: a number or a boolean recorded in a ValueDiff parses back to
\* the scalar; a string is recorded as its bare text, without quotes, and does
\* not parse back to the string: the string "1" and the number 1 are both
\* recorded as 1.
C20_ScalarRendering ==
    ReturnedResult =>
        /\ \A p \in ScalarDiffPairs :
              /\ Len(ValueDiffsAt(p.key)) = 1
              /\ LET d == ValueDiffsAt(p.key)[1]
                 IN  IF p.a.t = "string"
                     THEN /\ d.value1 = p.a.sv /\ d.value2 = p.b.sv
                          /\ from_str(d.value1) # Parsed(p.a)
                          /\ from_str(d.value2) # Parsed(p.b)
                     ELSE /\ from_str(d.value1) = Parsed(p.a)
                          /\ from_str(d.value2) = Parsed(p.b)
        /\ (data1 = ExampleA /\ data2 = ExampleB) =>
              /\ result.value_diff = <<ValueDiff("x", "1", "2")>>
              /\ from_str(result.value_diff[1].value1) = Parsed(Number(1))

\* two booleans that differ: the recorded texts parse back to them
C20_Witness ==
    /\ ReturnedResult
    /\ data1 = <<Entry("x", Bool(TRUE))>>
    /\ data2 = <<Entry("x", Bool(FALSE))>>
    /\ result.value_diff = <<ValueDiff("x", "true", "false")>>
    /\ from_str(result.value_diff[1].value2) = Parsed(Bool(FALSE))

----------------------------------------------------------------------------
(* C21 *)

\* the visited pairs of two scalars of one type
ScalarPairs == {p \in Visited : IsPrimitive(p.a) /\ p.a.t = p.b.t}

\* the text of a scalar as a ValueDiff records it
ScalarText(v) ==
    CASE v.t = "string" -> v.sv
      [] v.t = "number" -> ToString(v.nv)
      [] v.t = "bool" -> (IF v.bv THEN "true" ELSE "false")

\* C21: two scalars of the same type at the same path give exactly one
\* ValueDiff, with that path and the two renderings as value_a and value_b, when
\* the values differ, and no ValueDiff when they are equal.
C21_OneValueDiffPerDifferingScalar ==
    ReturnedResult =>
        \A p \in ScalarPairs :
            ValueDiffsAt(p.key) =
                (IF p.a # p.b
                 THEN <<ValueDiff(p.key, ScalarText(p.a), ScalarText(p.b))>>
                 ELSE <<>>)

\* "x" holds two different numbers, "y" in "nested" the same number
C21_Witness ==
    /\ ReturnedResult
    /\ data1 = <<Entry("nested", Object(<<Entry("y", Number(1))>>)), Entry("x", Number(2))>>
    /\ data2 = <<Entry("nested", Object(<<Entry("y", Number(1))>>)), Entry("x", Number(1))>>
    /\ result.value_diff = <<ValueDiff("x", "2", "1")>>

----------------------------------------------------------------------------
(* C22 *)

\* a record's path is the path of a key or lies below it
AtOrBelow(key, path) ==
    key = path \/ StartsWith(key, path \o ".") \/ StartsWith(key, path \o "[")

\* in a sequence of records, everything at or below first comes before
\* everything at or below second
Precedes(records, first, second) ==
    \A m, n \in 1..Len(records) :
        (AtOrBelow(records[m].key, first) /\ AtOrBelow(records[n].key, second)) => m < n

\* the objects of A the comparison walks, each with its path: those compared
\* with an object of B and those compared with null
WalkedObjectsOfA ==
    {[key |-> p.key, object |-> p.a.ov] : p \in {q \in Visited : q.a.t = "object"
                                                   /\ q.b.t \in {"object", "null"}}}

\* C22: within each category's sequence the records follow a depth-first
\* pre-order walk of side A: for two keys k1 before k2 in A's iteration order of
\* one object, every record at or below k1's path precedes every record at or
\* below k2's path; so the KeyDiff of a top-level key precedes the KeyDiff of
\* the same key inside a later nested object.
C22_PreOrderOfSideA ==
    ReturnedResult =>
        /\ \A w \in WalkedObjectsOfA :
              \A i, j \in 1..Len(w.object) :
                  i < j =>
                      LET first == IF w.key = "" THEN w.object[i].k
                                   ELSE w.key \o "." \o w.object[i].k
                          second == IF w.key = "" THEN w.object[j].k
                                    ELSE w.key \o "." \o w.object[j].k
                      IN  /\ Precedes(result.key_diff, first, second)
                          /\ Precedes(result.type_diff, first, second)
                          /\ Precedes(result.value_diff, first, second)
                          /\ Precedes(result.array_diff, first, second)
        /\ (data1 = TestObjectA /\ data2 = TestObjectB) =>
              result.key_diff = <<KeyDiff("key_diff_a_has", FileA, FileB),
                                  KeyDiff("nested_object.key_diff_a_has", FileA, FileB)>>

\* the documents of the test: the top-level key that B lacks comes before the
\* one inside "nested_object", and the ValueDiffs below "nested_object" come
\* before the one at "value_diff"
C22_Witness ==
    /\ ReturnedResult
    /\ array_same_order
    /\ data1 = TestObjectA
    /\ data2 = TestObjectB
    /\ Len(result.key_diff) = 2
    /\ [i \in 1..Len(result.value_diff) |-> result.value_diff[i].key] =
          <<"array_diff_same_order[2]", "nested_object.array_diff_same_order[2]",
            "nested_object.value_diff", "value_diff">>

----------------------------------------------------------------------------
(* C24 *)

\* the visited pairs with null on exactly one side and a scalar on the other
NullScalarPairs ==
    {p \in Visited : (is_null(p.a) /\ IsPrimitive(p.b)) \/ (IsPrimitive(p.a) /\ is_null(p.b))}

\* C24: when exactly one of the two values at a path is null and the other is a
\* scalar, the comparison returns and exactly one ValueDiff is emitted at that
\* path: the null side's entry is the empty string and the other side's entry is
\* the text of the non-null value, value1 being side A and value2 side B.
C24_NullAgainstScalar ==
    Compared =>
        \A p \in NullScalarPairs :
            /\ ~result.panic
            /\ ValueDiffsAt(p.key) =
                  <<ValueDiff(p.key,
                              IF is_null(p.a) THEN "" ELSE ScalarText(p.a),
                              IF is_null(p.b) THEN "" ELSE ScalarText(p.b))>>

\* the same statement for the runs that return: the part of C24 the code keeps
C24_NullAgainstString ==
    ReturnedResult =>
        \A p \in NullScalarPairs :
            ValueDiffsAt(p.key) =
                <<ValueDiff(p.key,
                            IF is_null(p.a) THEN "" ELSE ScalarText(p.a),
                            IF is_null(p.b) THEN "" ELSE ScalarText(p.b))>>

----------------------------------------------------------------------------
(* C25 *)

\* the visited pairs with null on one side and an array on the other
NullArrayPairs ==
    {p \in Visited : (is_null(p.a) /\ p.b.t = "array") \/ (p.a.t = "array" /\ is_null(p.b))}

\* C25: when one value at a path is null and the other is an array, the
\* comparison returns and the ArrayDiff records at that path are one per element
\* of the array, in element order, tagged AHas when B is null and BHas when A is
\* null, each carrying the element's value; there is no AMisses or BMisses
\* record for the pair.
C25_NullAgainstArray ==
    Compared =>
        \A p \in NullArrayPairs :
            LET elements == IF is_null(p.a) THEN p.b.av ELSE p.a.av
                desc == IF is_null(p.a) THEN "BHas" ELSE "AHas"
            IN  /\ ~result.panic
                /\ ArrayDiffsAt(p.key) =
                      [i \in 1..Len(elements) |->
                          ArrayDiff(p.key, desc, ScalarText(elements[i]))]

\* the same statement for the runs that return
C25_NullAgainstStringArray ==
    ReturnedResult =>
        \A p \in NullArrayPairs :
            LET elements == IF is_null(p.a) THEN p.b.av ELSE p.a.av
                desc == IF is_null(p.a) THEN "BHas" ELSE "AHas"
            IN  ArrayDiffsAt(p.key) =
                    [i \in 1..Len(elements) |->
                        ArrayDiff(p.key, desc, ScalarText(elements[i]))]

----------------------------------------------------------------------------
(* C26 *)

\* C26: when one value at path P is null and the other is an object, the
\* comparison returns and every direct key k of the object gets, at path P.k,
\* exactly one KeyDiff (has = the label of the object's side, misses = the
\* other), one TypeDiff (the type of k's value on the object's side, the empty
\* string on the null side) and one ValueDiff (the empty string on the null
\* side); nothing is emitted below P.k and no ArrayDiff at or below P.
C26_NullAgainstObject ==
    Compared =>
        \A p \in NullObjectPairs :
            LET a_null == is_null(p.a)
                object == IF a_null THEN p.b.ov ELSE p.a.ov
                path(i) == p.key \o "." \o object[i].k
                type(i) == get_type(object[i].v)
                below == {i \in 1..Len(result.array_diff) :
                             AtOrBelow(result.array_diff[i].key, p.key)}
            IN  /\ ~result.panic
                /\ KeyDiffsAtOrBelow(p.key) =
                      [i \in 1..Len(object) |->
                          KeyDiff(path(i), IF a_null THEN FileB ELSE FileA,
                                           IF a_null THEN FileA ELSE FileB)]
                /\ SelectSeq(result.type_diff,
                             LAMBDA d : d.key # p.key /\ AtOrBelow(d.key, p.key)) =
                      [i \in 1..Len(object) |->
                          TypeDiff(path(i), IF a_null THEN "" ELSE type(i),
                                            IF a_null THEN type(i) ELSE "")]
                /\ \A i \in 1..Len(object) :
                      /\ Len(ValueDiffsAt(path(i))) = 1
                      /\ (IF a_null THEN ValueDiffsAt(path(i))[1].value1
                                    ELSE ValueDiffsAt(path(i))[1].value2) = ""
                /\ Len(SelectSeq(result.value_diff,
                                 LAMBDA d : AtOrBelow(d.key, p.key))) = Len(object)
                /\ below = {}

\* the same statement for the runs that return
C26_NullAgainstStringObject ==
    ReturnedResult =>
        \A p \in NullObjectPairs :
            LET a_null == is_null(p.a)
                object == IF a_null THEN p.b.ov ELSE p.a.ov
                path(i) == p.key \o "." \o object[i].k
                type(i) == get_type(object[i].v)
                below == {i \in 1..Len(result.array_diff) :
                             AtOrBelow(result.array_diff[i].key, p.key)}
            IN  /\ KeyDiffsAtOrBelow(p.key) =
                      [i \in 1..Len(object) |->
                          KeyDiff(path(i), IF a_null THEN FileB ELSE FileA,
                                           IF a_null THEN FileA ELSE FileB)]
                /\ SelectSeq(result.type_diff,
                             LAMBDA d : d.key # p.key /\ AtOrBelow(d.key, p.key)) =
                      [i \in 1..Len(object) |->
                          TypeDiff(path(i), IF a_null THEN "" ELSE type(i),
                                            IF a_null THEN type(i) ELSE "")]
                /\ \A i \in 1..Len(object) :
                      /\ Len(ValueDiffsAt(path(i))) = 1
                      /\ (IF a_null THEN ValueDiffsAt(path(i))[1].value1
                                    ELSE ValueDiffsAt(path(i))[1].value2) = ""
                /\ Len(SelectSeq(result.value_diff,
                                 LAMBDA d : AtOrBelow(d.key, p.key))) = Len(object)
                /\ below = {}

----------------------------------------------------------------------------
(* C30 *)

NullHelpers ==
    {"handle_one_element_null_objects", "handle_one_element_null_arrays",
     "handle_one_element_null_primitives"}

\* the call made lies outside the precondition of the helper called
OutsidePrecondition ==
    \/ pc \in NullHelpers /\ is_null(call.a) = is_null(call.b)
    \/ pc = "handle_different_types" /\ get_type(call.a) = get_type(call.b)

\* C30: in a build with debug assertions, each type-specific helper rejects a
\* call outside its precondition by the panic of its debug assertion: the three
\* handle_one_element_null_* helpers when both arguments are null or neither is,
\* handle_different_types when both arguments have the same type; and in no
\* build does a call of compare_field, the dispatcher, end in the panic of one
\* of these assertions.
C30_GuardsRejectAndDispatcherRespects ==
    /\ (OutsidePrecondition /\ debug_assertions) => (result.panic /\ result.assertion)
    /\ pc = "compare_field" => ~result.assertion

\* handle_one_element_null_primitives is called with two strings, as in its
\* test, and the assertion fails
C30_Witness ==
    /\ pc = "handle_one_element_null_primitives"
    /\ debug_assertions
    /\ call = [a |-> String("a"), b |-> String("a")]
    /\ result = AssertionResult

\* with debug assertions compiled out the same calls are not all rejected
C30_ReleaseBuildRejects ==
    OutsidePrecondition => result.panic

----------------------------------------------------------------------------
(* C23 *)

\* the program was started with -r on a result file that exists, and App::new
\* has run
ReadModeRan == config.read_from_file # "" /\ file.exists /\ pc # "start"

\* C23: when read_from_file is non-empty (and names a saved result file),
\* constructing the App completes without a panic and without checking any
\* files, and the diffs of the App are exactly the ones loaded from the file.
C23_ReadModeConstructs ==
    ReadModeRan => (pc \in {"constructed", "executed"} /\ diffs = loaded)

----------------------------------------------------------------------------
(* C27 *)

\* the saved file has been loaded back; diffs is still the DiffCollection that
\* was written to it
LoadedBack == config.read_from_file # "" /\ file.exists /\ pc = "panicked"

\* C27: saving a DiffCollection with write_to_file and loading it back with
\* load_saved_results gives the same DiffCollection: a category that was absent
\* when the result was saved is absent in the loaded collection, not present and
\* empty, and a present category is loaded with the same records in the same
\* order.
C27_RoundTripKeepsAbsence ==
    LoadedBack =>
        \A category \in Categories : component(loaded, category) = component(diffs, category)

\* the part of C27 the code keeps: the records of every category are the saved
\* ones in the saved order, an absent category being loaded as an empty one
C27_RecordsKept ==
    LoadedBack =>
        \A category \in Categories :
            /\ component(loaded, category).some
            /\ component(loaded, category).vec = unwrap_or_default(component(diffs, category))

----------------------------------------------------------------------------
(* C28 *)

\* the run has rendered: to the terminal or to diff.html
TablesRendered == pc = "executed" /\ ~config.write_to_file.some

\* the array tables that were rendered
ArrayTables == {i \in 1..Len(output) : output[i].category = "array"}

\* the values of the records of data with one key and one tag, in record order
ValuesOf(data, key, desc) ==
    LET recs == SelectSeq(data, LAMBDA d : d.key = key /\ d.descriptor = desc)
    IN  [i \in 1..Len(recs) |-> recs[i].value]

\* C28: an array table, on the terminal or in the HTML page, has exactly one
\* row per distinct path of the ArrayDiff records; the row of a path lists in
\* its first column the values of the path's AHas records and in its second
\* column the values of its BHas records, each in record order (joined by
\* ",\n"); AMisses and BMisses records have no part in what is rendered.
C28_OneRowPerArrayPath ==
    TablesRendered =>
        \A t \in ArrayTables :
            LET data == diffs.array_diff.vec
                rows == output[t].rows
                paths == {data[i].key : i \in 1..Len(data)}
            IN  /\ Len(rows) = Cardinality(paths)
                /\ \A path \in paths :
                      \E i \in 1..Len(rows) :
                          rows[i] = Row(path,
                                        JoinWith(ValuesOf(data, path, "AHas"), ",\n"),
                                        JoinWith(ValuesOf(data, path, "BHas"), ",\n"))

\* two array paths differ: the table has two rows, and the row of "x" lists 1
\* for A and 2 and 3 for B although AMisses and BMisses records exist
C28_Witness ==
    /\ TablesRendered
    /\ Len(diffs.array_diff.vec) = 10
    /\ \E t \in ArrayTables :
          /\ Len(output[t].rows) = 2
          /\ \E i \in 1..2 : output[t].rows[i] = Row("x", "1", "2,\n3")
          /\ \E i \in 1..2 : output[t].rows[i] = Row("nested.x", "\"a\"", "2")

----------------------------------------------------------------------------
(* C29 *)

\* App::render_tables has printed
Printed == pc = "executed" /\ ~config.write_to_file.some /\ ~config.write_to_html

render_flag(cfg, category) ==
    CASE category = "key" -> cfg.render_key_diffs
      [] category = "type" -> cfg.render_type_diffs
      [] category = "value" -> cfg.render_value_diffs
      [] category = "array" -> cfg.render_array_diffs

CategoryRank(category) ==
    CASE category = "key" -> 1 [] category = "type" -> 2
      [] category = "value" -> 3 [] category = "array" -> 4

\* C29: render_tables prints one table for a category exactly when the
\* category's render flag is set and its sequence is present and not empty, the
\* tables in the order Key, Type, Value, Array; it prints "The data is
\* identical!" exactly when it prints no table, and never both.
C29_TablesOrIdentical ==
    Printed =>
        LET printed(category) == {i \in 1..Len(output) : output[i].category = category}
            message == {i \in 1..Len(output) : output[i] = Identical}
            any == \E category \in Categories : printed(category) # {}
        IN  /\ \A category \in Categories :
                  Cardinality(printed(category)) =
                      (IF /\ render_flag(config, category)
                          /\ component(diffs, category).some
                          /\ component(diffs, category).vec # <<>>
                       THEN 1 ELSE 0)
            /\ \A i, j \in 1..Len(output) :
                  (i < j /\ output[i] # Identical /\ output[j] # Identical) =>
                      CategoryRank(output[i].category) < CategoryRank(output[j].category)
            /\ (message # {}) = ~any
            /\ Cardinality(message) <= 1
            /\ \A i \in 1..Len(output) :
                  output[i] = Identical \/ output[i].category \in Categories

\* keys, types and values are rendered; there are key diffs and value diffs but
\* the type sequence is present and empty: the key table and the value table
\* are printed in this order, and no message
C29_Witness ==
    /\ Printed
    /\ config.render_key_diffs /\ config.render_type_diffs /\ config.render_value_diffs
    /\ diffs.type_diff = Some(<<>>)
    /\ Len(output) = 2
    /\ output[1].category = "key"
    /\ output[2].category = "value"

====
